---- MODULE Spec2Model ----
(***************************************************************************)
(* Model of the polymarket-bot-go decision core: the position ledger       *)
(* (internal/inventory), the price classifier (types.ClassifyPrices) and   *)
(* the goroutine-level locking of the ledger.                              *)
(*                                                                         *)
(* Numbers.  Go float64 quantities are modelled in fixed point with three  *)
(* decimals: a token amount, a USDC amount or a price x is the integer     *)
(* 1000*x (0.99 is 990, 0.01 is 10, 3 tokens are 3000).  Time is in whole  *)
(* seconds.                                                                *)
(***************************************************************************)
EXTENDS Integers, Sequences, FiniteSets, TLC

VARIABLES
    state,          \* Inventory.state: conditionID -> Entry (a map; DOMAIN = tracked markets)
    file,           \* the persisted JSON document (what save() last wrote)
    lastReconcile,  \* Inventory.lastReconcile
    now,            \* the wall clock, seconds
    diskFaulty,     \* environment: whether os.WriteFile may fail
    op,             \* the last ledger call: its name, arguments, time and return value
    cp,             \* classifier harness: inputs and result of ClassifyPrices
    pc,             \* goroutine harness: position of each goroutine in its call
    call,           \* goroutine harness: the call each goroutine makes
    tmp,            \* goroutine harness: each goroutine's locals
    mu,             \* Inventory.mu: 0 when free, else the holder
    state0,         \* goroutine harness: the ledger before the goroutines start
    fsm,            \* the FSM struct: per-market cooldown timestamps and spend counters
    step,           \* the last FSM.Step call: its arguments and what it returned
    ex              \* the last Executor call: its arguments, what it did and returned

vars == <<state, file, lastReconcile, now, diskFaulty, op,
          cp, pc, call, tmp, mu, state0, fsm, step, ex>>

ledgerVars == <<state, file, lastReconcile, now, diskFaulty, op>>
classVars  == <<cp>>
concVars   == <<pc, call, tmp, mu, state0>>
fsmVars    == <<fsm, step>>
execVars   == <<ex>>

-----------------------------------------------------------------------------
(* Bounds of the model *)

MaxHeld   == 1      \* buys stop when the ledger holds MaxHeld tokens over all legs,
                    \* merges when MaxHeld pairs were merged over all markets
MaxClock  == 2      \* the clock runs for MaxClock minutes

-----------------------------------------------------------------------------
(* Program constants *)

reconcileInterval == 120

\* the zero time.Time of a fresh Inventory: time.Since of it exceeds any interval
ZeroTime == -1000000

Markets == {"m1", "m2"}
Sides   == {"UP", "DOWN"}

\* types.Market.UpTokenID / DownTokenID of the two markets
UpTokenOf(m)   == IF m = "m1" THEN "u1" ELSE "u2"
DownTokenOf(m) == IF m = "m1" THEN "d1" ELSE "d2"

Min(a, b) == IF a < b THEN a ELSE b
Max(a, b) == IF a > b THEN a ELSE b

-----------------------------------------------------------------------------
(* The ledger: pure parts *)

NewEntry(upTokenID, downTokenID) ==
    [UpTokenID |-> upTokenID, DownTokenID |-> downTokenID,
     UpBalance |-> 0, DownBalance |-> 0, TotalInvested |-> 0, TotalMerged |-> 0]

\* a map assignment that drops every other key
MapSetAlone(s, k, v) == [x \in {k} |-> v]

\* inv.state[conditionID] = v, creating the key when absent
MapSet(s, k, v) == [x \in DOMAIN s \cup {k} |-> IF x = k THEN v ELSE s[x]]

EmptyMap == [x \in {} |-> 0]

GetBalance(s, conditionID, side) ==
    IF conditionID \notin DOMAIN s THEN 0
    ELSE IF side = "UP" THEN s[conditionID].UpBalance
    ELSE s[conditionID].DownBalance

GetMergeablePairs(s, conditionID) ==
    IF conditionID \notin DOMAIN s THEN 0
    ELSE Min(s[conditionID].UpBalance, s[conditionID].DownBalance)

GetImbalance(s, conditionID) ==
    IF conditionID \notin DOMAIN s THEN <<"DOWN", 0>>
    ELSE LET e == s[conditionID] IN
         IF e.UpBalance >= e.DownBalance
         THEN <<"DOWN", e.UpBalance - e.DownBalance>>
         ELSE <<"UP", e.DownBalance - e.UpBalance>>

ensure(s, conditionID, upTokenID, downTokenID) ==
    IF conditionID \in DOMAIN s THEN s
    ELSE MapSet(s, conditionID, NewEntry(upTokenID, downTokenID))

\* RecordBuy with the side test inverted (a buy lands on the other leg)
RecordBuyOnOtherLeg(s, conditionID, upTokenID, downTokenID, side, tokens, usdc) ==
    LET s1 == ensure(s, conditionID, upTokenID, downTokenID)
        e  == s1[conditionID]
        e1 == IF side # "UP"
              THEN [e EXCEPT !.UpBalance = @ + tokens]
              ELSE [e EXCEPT !.DownBalance = @ + tokens]
    IN  [s1 EXCEPT ![conditionID] = [e1 EXCEPT !.TotalInvested = @ + usdc]]

\* the in-memory effect of RecordBuy
RecordBuyOn(s, conditionID, upTokenID, downTokenID, side, tokens, usdc) ==
    LET s1 == ensure(s, conditionID, upTokenID, downTokenID)
        e  == s1[conditionID]
        e1 == IF side = "UP"
              THEN [e EXCEPT !.UpBalance = @ + tokens]
              ELSE [e EXCEPT !.DownBalance = @ + tokens]
    IN  [s1 EXCEPT ![conditionID] = [e1 EXCEPT !.TotalInvested = @ + usdc]]

\* RecordMerge without the clamp to the smaller leg
MergeableUnclamped(e, pairs) == pairs

\* RecordMerge clamped to the larger leg instead of the smaller
MergeableMaxLeg(e, pairs) == Min(pairs, Max(e.UpBalance, e.DownBalance))

\* mergeable := math.Min(pairs, math.Min(e.UpBalance, e.DownBalance))
Mergeable(e, pairs) == Min(pairs, Min(e.UpBalance, e.DownBalance))

\* the in-memory effect of RecordMerge
RecordMergeOn(s, conditionID, pairs) ==
    IF conditionID \notin DOMAIN s THEN s
    ELSE LET e == s[conditionID]
             mergeable == Mergeable(e, pairs)
         IN  [s EXCEPT ![conditionID] =
                 [e EXCEPT !.UpBalance = @ - mergeable,
                           !.DownBalance = @ - mergeable,
                           !.TotalMerged = @ + mergeable]]

\* save() that never reaches the file
saveNothing(s, ok) == file

\* save(): os.WriteFile either replaces the document or fails and leaves it
save(s, ok) == IF ok THEN s ELSE file

WriteOutcomes == IF diskFaulty THEN BOOLEAN ELSE {TRUE}

-----------------------------------------------------------------------------
(* ReconcileFromAPI: the rebuild from the trade history *)

\* strconv.ParseFloat on the strings the model's trade history uses;
\* an unparsable or empty string gives 0
parseFloatStr(str) ==
    CASE str = "1"   -> 1000
      [] str = "2"   -> 2000
      [] str = "5"   -> 5000
      [] str = "7"   -> 7000
      [] str = "0.5" -> 500
      [] OTHER       -> 0

Trade(market, side, outcome, size, price, status, assetID) ==
    [Market |-> market, Side |-> side, Outcome |-> outcome, Size |-> size,
     Price |-> price, Status |-> status, AssetID |-> assetID]

\* clob.Trade values the trade-history endpoint may return
tUp1      == Trade("m1", "BUY",  "UP",    "1", "0.5", "CONFIRMED", "u1")
tDown1    == Trade("m1", "BUY",  "DOWN",  "1", "",    "MATCHED",   "d1")
tDown2    == Trade("m1", "BUY",  "DOWN",  "2", "",    "MATCHED",   "d1")
tYes2     == Trade("m2", "BUY",  "YES",   "1", "0.5", "MATCHED",   "u2")
tSell     == Trade("m2", "SELL", "NO",    "1", "0.5", "CONFIRMED", "d2")
tFailed   == Trade("m1", "BUY",  "UP",    "1", "0.5", "FAILED",    "u1")
tNoSize   == Trade("m2", "BUY",  "NO",    "",  "0.5", "CONFIRMED", "d2")
tOther    == Trade("m2", "BUY",  "MAYBE", "1", "0.5", "CONFIRMED", "x2")
tNoMarket == Trade("",   "BUY",  "UP",    "1", "0.5", "CONFIRMED", "u1")

\* the three `continue` filters and the size filter of the rebuild loop
Counted(t) ==
    /\ t.Market # ""
    /\ t.Status \in {"CONFIRMED", "MATCHED"}
    /\ t.Side = "BUY"
    /\ parseFloatStr(t.Size) # 0

\* the histories a fetch may return
TradeLists ==
    { <<>>,
      <<tUp1>>,
      <<tUp1, tDown1>>,
      <<tUp1, tDown2>>,
      <<tYes2, tSell, tNoSize, tOther>>,
      <<tFailed, tNoMarket>> }

\* client.GetTrades(""): an error, or a (possibly empty) list of trades
FetchResults ==
    {[err |-> TRUE, trades |-> <<>>]} \cup {[err |-> FALSE, trades |-> l] : l \in TradeLists}

\* one iteration of the rebuild loop
ApplyTrade(newState, t) ==
    IF ~Counted(t) THEN newState
    ELSE LET size   == parseFloatStr(t.Size)
             ns     == IF t.Market \in DOMAIN newState THEN newState
                       ELSE MapSet(newState, t.Market, NewEntry("", ""))
             e      == ns[t.Market]
             price0 == parseFloatStr(t.Price)
             price  == IF price0 = 0 THEN 1000 ELSE price0
             e1     == [e EXCEPT !.TotalInvested = @ + (size * price) \div 1000]
             e2     == CASE t.Outcome \in {"UP", "YES"} ->
                              [e1 EXCEPT !.UpBalance = @ + size, !.UpTokenID = t.AssetID]
                         [] t.Outcome \in {"DOWN", "NO"} ->
                              [e1 EXCEPT !.DownBalance = @ + size, !.DownTokenID = t.AssetID]
                         [] OTHER -> e1
         IN  [ns EXCEPT ![t.Market] = e2]

RECURSIVE Rebuild(_, _)
Rebuild(newState, trades) ==
    IF trades = <<>> THEN newState
    ELSE Rebuild(ApplyTrade(newState, Head(trades)), Tail(trades))

\* "Subtract already-merged amounts from existing state"
SubtractMerged(newState, existing) ==
    [cid \in DOMAIN newState |->
        IF cid \in DOMAIN existing
        THEN LET merged == existing[cid].TotalMerged IN
             [newState[cid] EXCEPT !.TotalMerged = merged,
                                   !.UpBalance   = Max(0, @ - merged),
                                   !.DownBalance = Max(0, @ - merged)]
        ELSE newState[cid]]

\* the ledger that replaces inv.state when the rebuild is performed
Reconciled(existing, trades) == SubtractMerged(Rebuild(EmptyMap, trades), existing)

\* ReconcileFromAPI without its rate-limit gate
RateLimitedNever(force) == FALSE

\* the rate-limit gate at the head of ReconcileFromAPI
RateLimited(force) == ~force /\ now - lastReconcile < reconcileInterval

-----------------------------------------------------------------------------
(* The ledger: one action per call, as made from the main goroutine *)

\* fills a buy order may report: <<tokens received, USDC spent>>
Fills == {<<1000, 500>>}
PairAmounts == {500, 1000000}

RECURSIVE SumOver(_, _)
SumOver(s, field) ==
    IF DOMAIN s = {} THEN 0
    ELSE LET k == CHOOSE x \in DOMAIN s : TRUE
         IN  s[k][field] + SumOver([x \in DOMAIN s \ {k} |-> s[x]], field)

\* tokens held over all markets and legs, and pairs merged over all markets
Held(s)   == SumOver(s, "UpBalance") + SumOver(s, "DownBalance")
Merged(s) == SumOver(s, "TotalMerged")

RecordBuy(conditionID, side, tokens, usdc, wrote) ==
    LET s == RecordBuyOn(state, conditionID, UpTokenOf(conditionID),
                         DownTokenOf(conditionID), side, tokens, usdc)
    IN  /\ Held(s) <= 1000 * MaxHeld
        /\ state' = s
        /\ file' = save(s, wrote)
        /\ op' = [name |-> "RecordBuy", conditionID |-> conditionID, side |-> side,
                  tokens |-> tokens, usdc |-> usdc, wrote |-> wrote]
        /\ UNCHANGED <<lastReconcile, now, diskFaulty>>

RecordMerge(conditionID, pairs, wrote) ==
    LET s == RecordMergeOn(state, conditionID, pairs)
    IN  /\ Merged(s) <= 1000 * MaxHeld
        /\ state' = s
        /\ file' = IF conditionID \in DOMAIN state THEN save(s, wrote) ELSE file
        /\ op' = [name |-> "RecordMerge", conditionID |-> conditionID, pairs |-> pairs,
                  wrote |-> conditionID \in DOMAIN state /\ wrote]
        /\ UNCHANGED <<lastReconcile, now, diskFaulty>>

\* what the skipped call follows: the previous ledger call, when it was a reconcile
PreviousCall ==
    IF op.name = "ReconcileFromAPI"
    THEN [name |-> op.name, force |-> op.force, n |-> op.n, t |-> op.t]
    ELSE [name |-> op.name]

ReconcileFromAPI(force, res, wrote) ==
    IF RateLimited(force)
    THEN /\ op' = [name |-> "ReconcileFromAPI", t |-> now, force |-> force, fetched |-> FALSE,
                   n |-> -1, err |-> FALSE, after |-> PreviousCall]
         /\ UNCHANGED <<state, file, lastReconcile, now, diskFaulty>>
    ELSE /\ lastReconcile' = now
         /\ IF res.err \/ Len(res.trades) = 0
            THEN /\ op' = [name |-> "ReconcileFromAPI", t |-> now, force |-> force, fetched |-> TRUE,
                           n |-> 0, err |-> res.err]
                 /\ UNCHANGED <<state, file>>
            ELSE LET s == Reconciled(state, res.trades) IN
                 /\ state' = s
                 /\ file' = save(s, wrote)
                 /\ op' = [name |-> "ReconcileFromAPI", t |-> now, force |-> force, fetched |-> TRUE,
                           n |-> Cardinality(DOMAIN s),
                           err |-> FALSE, wrote |-> wrote]
         /\ UNCHANGED <<now, diskFaulty>>

\* time passes between calls
Advance ==
    /\ now + 60 <= 60 * MaxClock
    /\ now' = now + 60
    /\ UNCHANGED <<op, state, file, lastReconcile, diskFaulty>>

IdleClassifier == cp = [phase |-> "off"]
IdleGoroutines ==
    /\ pc = <<>>
    /\ call = <<>>
    /\ tmp = <<>>
    /\ mu = 0
    /\ state0 = EmptyMap

\* fsm.New(): four empty maps; no Step call made yet
NewFSM ==
    [lastMomentumTS |-> EmptyMap, momentumSpent |-> EmptyMap,
     lastArbTS |-> EmptyMap, arbSpent |-> EmptyMap]

IdleFSM ==
    /\ fsm = NewFSM
    /\ step = [Kind |-> "none"]

IdleExecutor == ex = [name |-> "none"]

\* inventory.New(): the file is missing, the ledger starts empty
Init ==
    /\ state = EmptyMap
    /\ file = EmptyMap
    /\ lastReconcile = ZeroTime
    /\ now = 0
    /\ diskFaulty = FALSE
    /\ op = [name |-> "New"]
    /\ IdleClassifier
    /\ IdleGoroutines
    /\ IdleFSM
    /\ IdleExecutor

DoRecordBuy ==
    \E conditionID \in Markets, side \in Sides, fill \in Fills, wrote \in WriteOutcomes :
        RecordBuy(conditionID, side, fill[1], fill[2], wrote)

DoRecordMerge ==
    \E conditionID \in Markets, pairs \in PairAmounts, wrote \in WriteOutcomes :
        RecordMerge(conditionID, pairs, wrote)

DoReconcile ==
    \E force \in BOOLEAN, res \in FetchResults, wrote \in WriteOutcomes :
        ReconcileFromAPI(force, res, wrote)

Next ==
    \/ DoRecordBuy /\ UNCHANGED <<classVars, concVars, fsmVars, execVars>>
    \/ DoRecordMerge /\ UNCHANGED <<classVars, concVars, fsmVars, execVars>>
    \/ DoReconcile /\ UNCHANGED <<classVars, concVars, fsmVars, execVars>>
    \/ Advance /\ UNCHANGED <<classVars, concVars, fsmVars, execVars>>

Spec == Init /\ [][Next]_vars

-----------------------------------------------------------------------------
(* The price classifier *)

MaxPriceStep == 20      \* prices are drawn from the 0.05 grid up to 0.05 * MaxPriceStep

\* the price at and above which a market counts as resolved (0.99)
ResolvedPrice == 990

max64(a, b) == IF a > b THEN a ELSE b

\* ClassifyPrices with the resolved test made strict (winner > 0.99)
ClassifyPricesStrictResolved(up, down, arbThreshold, momentumTrigger) ==
    LET winner == max64(up, down)
        spread == up + down
    IN  IF winner > ResolvedPrice THEN "RESOLVED"
        ELSE IF winner > momentumTrigger
             THEN (IF up > down THEN "MOMENTUM_UP" ELSE "MOMENTUM_DOWN")
        ELSE IF spread < arbThreshold THEN "ARB"
        ELSE "GREY"

\* ClassifyPrices with the momentum test made inclusive (winner >= trigger)
ClassifyPricesInclusiveTrigger(up, down, arbThreshold, momentumTrigger) ==
    LET winner == max64(up, down)
        spread == up + down
    IN  IF winner >= ResolvedPrice THEN "RESOLVED"
        ELSE IF winner >= momentumTrigger
             THEN (IF up > down THEN "MOMENTUM_UP" ELSE "MOMENTUM_DOWN")
        ELSE IF spread < arbThreshold THEN "ARB"
        ELSE "GREY"

\* ClassifyPrices with the arbitrage test made inclusive (spread <= threshold)
ClassifyPricesInclusiveArb(up, down, arbThreshold, momentumTrigger) ==
    LET winner == max64(up, down)
        spread == up + down
    IN  IF winner >= ResolvedPrice THEN "RESOLVED"
        ELSE IF winner > momentumTrigger
             THEN (IF up > down THEN "MOMENTUM_UP" ELSE "MOMENTUM_DOWN")
        ELSE IF spread <= arbThreshold THEN "ARB"
        ELSE "GREY"

\* Prices.Winner, Prices.WinnerPrice, Prices.LoserPrice
Winner(p)      == IF p.up >= p.down THEN "UP" ELSE "DOWN"
WinnerPrice(p) == IF p.up >= p.down THEN p.up ELSE p.down
LoserPrice(p)  == IF p.up <= p.down THEN p.up ELSE p.down

\* ClassifyPrices without its final return: the zero MarketState when no test
\* applies
ClassifyPricesNoDefault(up, down, arbThreshold, momentumTrigger) ==
    LET winner == max64(up, down)
        spread == up + down
    IN  IF winner >= ResolvedPrice THEN "RESOLVED"
        ELSE IF winner > momentumTrigger
             THEN (IF up > down THEN "MOMENTUM_UP" ELSE "MOMENTUM_DOWN")
        ELSE IF spread < arbThreshold THEN "ARB"
        ELSE ""

ClassifyPrices(up, down, arbThreshold, momentumTrigger) ==
    LET winner == max64(up, down)
        spread == up + down
    IN  IF winner >= ResolvedPrice THEN "RESOLVED"
        ELSE IF winner > momentumTrigger
             THEN (IF up > down THEN "MOMENTUM_UP" ELSE "MOMENTUM_DOWN")
        ELSE IF spread < arbThreshold THEN "ARB"
        ELSE "GREY"

\* prices a feed may quote: the 0.05 grid and the prices around the thresholds
PriceGrid ==
    {50 * i : i \in 0 .. MaxPriceStep}
        \cup {10, 140, 150, 480, 490, 860, 980, 989, 990, 991, 995}

\* values config.ARBThreshold and config.MomentumTrigger may be set to
ArbThresholds    == {950, 970, 1000}
MomentumTriggers == {500, 850, 995}

\* pricer.GetPrices: classify the fetched prices under the configured thresholds
Classify ==
    /\ cp.phase = "in"
    /\ cp' = [cp EXCEPT !.phase = "out",
                        !.State = ClassifyPrices(cp.up, cp.down,
                                                 cp.arbThreshold, cp.momentumTrigger)]

IdleLedger ==
    /\ state = EmptyMap
    /\ file = EmptyMap
    /\ lastReconcile = ZeroTime
    /\ now = 0
    /\ diskFaulty = FALSE
    /\ op = [name |-> "New"]

InitClassify ==
    /\ cp \in [phase : {"in"}, up : PriceGrid, down : PriceGrid,
               arbThreshold : ArbThresholds, momentumTrigger : MomentumTriggers,
               State : {""}]
    /\ IdleLedger
    /\ IdleGoroutines
    /\ IdleFSM
    /\ IdleExecutor

NextClassify == Classify /\ UNCHANGED <<ledgerVars, concVars, fsmVars, execVars>>

SpecClassify == InitClassify /\ [][NextClassify]_vars

-----------------------------------------------------------------------------
(* The ledger under concurrent callers: RecordBuy and RecordMerge statement *)
(* by statement, each goroutine making one call                             *)

NumProcs == 2       \* goroutines calling the ledger concurrently

Procs == 1 .. NumProcs

\* the calls a goroutine may make
ConcCalls ==
    { [name |-> "RecordBuy", conditionID |-> "m1", side |-> "UP", tokens |-> 1000, usdc |-> 500],
      [name |-> "RecordBuy", conditionID |-> "m1", side |-> "DOWN", tokens |-> 1000, usdc |-> 500],
      [name |-> "RecordBuy", conditionID |-> "m2", side |-> "UP", tokens |-> 1000, usdc |-> 500],
      [name |-> "RecordMerge", conditionID |-> "m1", pairs |-> 500],
      [name |-> "RecordMerge", conditionID |-> "m1", pairs |-> 1000000] }

\* ledgers load() may have read from the file: none, or one market with a pair
LoadedLedgers ==
    { EmptyMap,
      [m \in {"m1"} |-> [NewEntry("u1", "d1") EXCEPT !.UpBalance = 1000, !.DownBalance = 1000,
                                                    !.TotalInvested = 1000]] }

\* inv.mu.Lock() with the mutex ignored
CanLockAlways(self) == TRUE

\* inv.mu.Lock() returns only when no goroutine holds the mutex
CanLock(self) == mu = 0

\* the field a read-modify-write statement updates, and by how much
FieldAt(self) ==
    CASE pc[self] \in {"ld_leg", "st_leg"} ->
            (IF call[self].side = "UP" THEN "UpBalance" ELSE "DownBalance")
      [] pc[self] \in {"ld_inv", "st_inv"}       -> "TotalInvested"
      [] pc[self] \in {"ld_up", "st_up"}         -> "UpBalance"
      [] pc[self] \in {"ld_down", "st_down"}     -> "DownBalance"
      [] pc[self] \in {"ld_merged", "st_merged"} -> "TotalMerged"

DeltaAt(self) ==
    CASE pc[self] = "st_leg"    -> call[self].tokens
      [] pc[self] = "st_inv"    -> call[self].usdc
      [] pc[self] = "st_up"     -> 0 - tmp[self].mergeable
      [] pc[self] = "st_down"   -> 0 - tmp[self].mergeable
      [] pc[self] = "st_merged" -> tmp[self].mergeable

\* the statement after a read-modify-write statement
AfterStore(self) ==
    CASE pc[self] = "st_leg"    -> "ld_inv"
      [] pc[self] = "st_inv"    -> "save"
      [] pc[self] = "st_up"     -> "ld_down"
      [] pc[self] = "st_down"   -> "ld_merged"
      [] pc[self] = "st_merged" -> "save"

LoadPcs  == {"ld_leg", "ld_inv", "ld_up", "ld_down", "ld_merged"}
StorePcs == {"st_leg", "st_inv", "st_up", "st_down", "st_merged"}

StoreOf(p) ==
    CASE p = "ld_leg" -> "st_leg" [] p = "ld_inv" -> "st_inv" [] p = "ld_up" -> "st_up"
      [] p = "ld_down" -> "st_down" [] p = "ld_merged" -> "st_merged"

frameConc == <<lastReconcile, now, diskFaulty, op, call, state0>>

\* inv.mu.Lock()
Lock(self) ==
    /\ pc[self] = "lock"
    /\ CanLock(self)
    /\ mu' = self
    /\ pc' = [pc EXCEPT ![self] = IF call[self].name = "RecordBuy" THEN "ensure" ELSE "find"]
    /\ UNCHANGED <<state, file, tmp, frameConc>>

\* RecordBuy: inv.ensure(conditionID, upTokenID, downTokenID)
Ensure(self) ==
    /\ pc[self] = "ensure"
    /\ state' = ensure(state, call[self].conditionID, UpTokenOf(call[self].conditionID),
                       DownTokenOf(call[self].conditionID))
    /\ pc' = [pc EXCEPT ![self] = "ld_leg"]
    /\ UNCHANGED <<file, tmp, mu, frameConc>>

\* RecordMerge: the lookup, the early return, and mergeable := ...
Find(self) ==
    /\ pc[self] = "find"
    /\ IF call[self].conditionID \notin DOMAIN state
       THEN /\ pc' = [pc EXCEPT ![self] = "unlock"]
            /\ tmp' = tmp
       ELSE /\ pc' = [pc EXCEPT ![self] = "ld_up"]
            /\ tmp' = [tmp EXCEPT ![self].mergeable =
                          Mergeable(state[call[self].conditionID], call[self].pairs)]
    /\ UNCHANGED <<state, file, mu, frameConc>>

\* e.F += d, first half: read e.F
Load(self) ==
    /\ pc[self] \in LoadPcs
    /\ tmp' = [tmp EXCEPT ![self].reg = state[call[self].conditionID][FieldAt(self)]]
    /\ pc' = [pc EXCEPT ![self] = StoreOf(pc[self])]
    /\ UNCHANGED <<state, file, mu, frameConc>>

\* e.F += d, second half: write e.F
Store(self) ==
    /\ pc[self] \in StorePcs
    /\ state' = [state EXCEPT ![call[self].conditionID][FieldAt(self)] =
                    tmp[self].reg + DeltaAt(self)]
    /\ pc' = [pc EXCEPT ![self] = AfterStore(self)]
    /\ UNCHANGED <<file, tmp, mu, frameConc>>

\* inv.save()
Save(self) ==
    /\ pc[self] = "save"
    /\ \E wrote \in WriteOutcomes : file' = save(state, wrote)
    /\ pc' = [pc EXCEPT ![self] = "unlock"]
    /\ UNCHANGED <<state, tmp, mu, frameConc>>

\* the deferred inv.mu.Unlock()
Unlock(self) ==
    /\ pc[self] = "unlock"
    /\ mu' = 0
    /\ pc' = [pc EXCEPT ![self] = "done"]
    /\ UNCHANGED <<state, file, tmp, frameConc>>

InitConc ==
    /\ state0 \in LoadedLedgers
    /\ state = state0
    /\ file = state0
    /\ call \in [Procs -> ConcCalls]
    /\ pc = [p \in Procs |-> "lock"]
    /\ tmp = [p \in Procs |-> [mergeable |-> 0, reg |-> 0]]
    /\ mu = 0
    /\ lastReconcile = ZeroTime
    /\ now = 0
    /\ diskFaulty = FALSE
    /\ op = [name |-> "New"]
    /\ IdleClassifier
    /\ IdleFSM
    /\ IdleExecutor

NextConc ==
    \E self \in Procs :
        \/ Lock(self) /\ UNCHANGED <<classVars, fsmVars, execVars>>
        \/ Ensure(self) /\ UNCHANGED <<classVars, fsmVars, execVars>>
        \/ Find(self) /\ UNCHANGED <<classVars, fsmVars, execVars>>
        \/ Load(self) /\ UNCHANGED <<classVars, fsmVars, execVars>>
        \/ Store(self) /\ UNCHANGED <<classVars, fsmVars, execVars>>
        \/ Save(self) /\ UNCHANGED <<classVars, fsmVars, execVars>>
        \/ Unlock(self) /\ UNCHANGED <<classVars, fsmVars, execVars>>

SpecConc == InitConc /\ [][NextConc]_vars

-----------------------------------------------------------------------------
(* The decision engine: FSM.Step *)

\* cooldowns, seconds
momentumCooldown == 120
arbCooldown      == 5

\* config defaults: prices and USDC amounts in thousandths
ARBThreshold      == 970
MomentumTrigger   == 850
MomentumMaxEntry  == 920
ARBOrderUSDC      == 5000
ARBMaxUSDC        == 20000
MomentumMainUSDC  == 10000
MomentumHedgeUSDC == 1000
MomentumMaxUSDC   == 30000

\* one minute to close, and the 0.01 pairs below which nothing is merged
OneMinute == 1000
DustPairs == 10

\* types.Action and its constructors
Action(kind, side, main, hedge, mainUSDC, hedgeUSDC, arbUSDC) ==
    [Side |-> side, Kind |-> kind, MainSide |-> main, HedgeSide |-> hedge,
     MainUSDC |-> mainUSDC, HedgeUSDC |-> hedgeUSDC, ArbUSDC |-> arbUSDC]

WaitAction  == Action("wait", "", "", "", 0, 0, 0)
SkipAction  == Action("skip", "", "", "", 0, 0, 0)
MergeAction == Action("merge", "", "", "", 0, 0, 0)
\* BuyMomentumAction with the two legs exchanged
BuyMomentumActionSwapped(main, hedge, mainUSDC, hedgeUSDC) ==
    Action("buy_momentum", "", hedge, main, mainUSDC, hedgeUSDC, 0)
BuyMomentumAction(main, hedge, mainUSDC, hedgeUSDC) ==
    Action("buy_momentum", "", main, hedge, mainUSDC, hedgeUSDC, 0)
\* BuyArbBothAction sizing the DOWN leg at twice the UP leg
BuyArbBothActionLopsided(upUSDC, downUSDC) ==
    Action("buy_arb_both", "", "UP", "DOWN", upUSDC, 2 * downUSDC, upUSDC + 2 * downUSDC)
BuyArbBothAction(upUSDC, downUSDC) ==
    Action("buy_arb_both", "", "UP", "DOWN", upUSDC, downUSDC, upUSDC + downUSDC)

\* m[k] of a Go map with numeric values: the zero value when the key is absent
Lookup(m, k) == IF k \in DOMAIN m THEN m[k] ELSE 0

\* the resolution test with the minutes-to-close disjunct dropped
ResolvingByRegimeOnly(prices, minutesToClose) == prices.State = "RESOLVED"

\* prices.State == StateResolved || minutesToClose < 1
Resolving(prices, minutesToClose) ==
    prices.State = "RESOLVED" \/ minutesToClose < OneMinute

\* the merge test made inclusive (pairs >= 0.01)
WorthMergingInclusive(pairs) == pairs >= DustPairs

\* pairs > 0.01
WorthMerging(pairs) == pairs > DustPairs

\* the cooldown test ignoring the recorded timestamp
CoolingDownNever(last, cid, cooldown, t) == FALSE

\* if last, ok := ts[cid]; ok { if remaining := cooldown - time.Since(last); remaining > 0
CoolingDown(last, cid, cooldown, t) ==
    cid \in DOMAIN last /\ cooldown - (t - last[cid]) > 0

\* the cap test made strict (spent > cap)
CapReachedStrict(spent, cap) == spent > cap

\* spent >= cap
CapReached(spent, cap) == spent >= cap

\* the momentum branch without its price ceiling
AboveCeilingNever(prices) == FALSE

\* "Price ceiling: don't enter too late": prices.WinnerPrice() > MomentumMaxEntry
AboveCeiling(prices) == WinnerPrice(prices) > MomentumMaxEntry

\* what Step returns and the FSM it leaves, given the ledger's mergeable
\* pairs and the current time
StepResult(f, conditionID, prices, minutesToClose, pairs, t) ==
    IF Resolving(prices, minutesToClose)
    THEN [fsm |-> f, botState |-> "RESOLUTION",
          action |-> IF WorthMerging(pairs) THEN MergeAction ELSE SkipAction]
    ELSE IF prices.State \in {"MOMENTUM_UP", "MOMENTUM_DOWN"}
    THEN LET up        == prices.State = "MOMENTUM_UP"
             mainSide  == IF up THEN "UP" ELSE "DOWN"
             hedgeSide == IF up THEN "DOWN" ELSE "UP"
             botState  == prices.State
             spent     == Lookup(f.momentumSpent, conditionID)
             leftover  == MomentumMaxUSDC - spent
             remaining == IF leftover < MomentumMainUSDC THEN leftover ELSE MomentumMainUSDC
         IN  IF AboveCeiling(prices)
             THEN [fsm |-> f, botState |-> botState, action |-> SkipAction]
             ELSE IF CapReached(spent, MomentumMaxUSDC)
             THEN [fsm |-> f, botState |-> botState, action |-> SkipAction]
             ELSE IF CoolingDown(f.lastMomentumTS, conditionID, momentumCooldown, t)
             THEN [fsm |-> f, botState |-> botState, action |-> WaitAction]
             ELSE [fsm |-> [f EXCEPT
                              !.lastMomentumTS = MapSet(@, conditionID, t),
                              !.momentumSpent  = MapSet(@, conditionID,
                                                        spent + remaining + MomentumHedgeUSDC)],
                   botState |-> botState,
                   action |-> BuyMomentumAction(mainSide, hedgeSide, remaining,
                                                MomentumHedgeUSDC)]
    ELSE IF prices.State = "GREY"
    THEN [fsm |-> f, botState |-> "GREY", action |-> WaitAction]
    ELSE IF prices.State = "ARB"
    THEN LET arbSp == Lookup(f.arbSpent, conditionID) IN
         IF CapReached(arbSp, ARBMaxUSDC)
         THEN [fsm |-> f, botState |-> "ARB", action |-> SkipAction]
         ELSE IF CoolingDown(f.lastArbTS, conditionID, arbCooldown, t)
         THEN [fsm |-> f, botState |-> "ARB", action |-> SkipAction]
         ELSE [fsm |-> [f EXCEPT
                          !.lastArbTS = MapSet(@, conditionID, t),
                          !.arbSpent  = MapSet(@, conditionID, arbSp + ARBOrderUSDC * 2)],
               botState |-> "ARB",
               action |-> BuyArbBothAction(ARBOrderUSDC, ARBOrderUSDC)]
    ELSE [fsm |-> f, botState |-> "IDLE", action |-> SkipAction]

\* FSM.Step(conditionID, prices, inv, minutesToClose)
Step(conditionID, prices, minutesToClose) ==
    LET r == StepResult(fsm, conditionID, prices, minutesToClose,
                        GetMergeablePairs(state, conditionID), now)
    IN  /\ fsm' = r.fsm
        /\ step' = [conditionID |-> conditionID, Kind |-> r.action.Kind, prices |-> prices,
                    minutesToClose |-> minutesToClose,
                    botState |-> r.botState, action |-> r.action]
        /\ UNCHANGED <<ledgerVars, classVars, concVars, execVars>>

\* the prices a tick may see, one or two per regime: <<up, down>>
Quotes ==
    { <<500, 500>>, <<400, 550>>, <<860, 140>>, <<140, 860>>, <<950, 40>>, <<990, 10>> }

\* pricer.GetPrices / WSPricer.GetPrices: the prices with their regime
PricesOf(q) ==
    [up |-> q[1], down |-> q[2],
     State |-> ClassifyPrices(q[1], q[2], ARBThreshold, MomentumTrigger),
     Spread |-> q[1] + q[2]]

\* Market.MinutesToClose(): half a minute, or half an hour
MinutesToCloseValues == {500, 30000}

\* the instants at which the main loop may tick, seconds
ClockPoints == {0, 5, 120, 240}

\* the ledger the engine reads: m1 holds one pair, m2 holds 0.01 pairs
FsmLedger ==
    [m \in Markets |->
        IF m = "m1"
        THEN [NewEntry("u1", "d1") EXCEPT !.UpBalance = 1000, !.DownBalance = 1000]
        ELSE [NewEntry("u2", "d2") EXCEPT !.UpBalance = 10, !.DownBalance = 1000]]

\* the Step calls of the main loop: market m1 is ticked with every quote,
\* market m2 with the momentum quote only
StepInputs ==
    {<<"m1", q, mtc>> : q \in Quotes, mtc \in MinutesToCloseValues}
        \cup {<<"m2", <<860, 140>>, mtc>> : mtc \in MinutesToCloseValues}

DoStep ==
    \E in \in StepInputs : Step(in[1], PricesOf(in[2]), in[3])

\* time.Sleep(pollInterval) between ticks
Tick ==
    /\ \E t \in ClockPoints : t > now /\ now' = t
    /\ UNCHANGED <<state, file, lastReconcile, diskFaulty, op,
                   classVars, concVars, fsmVars, execVars>>

InitFSM ==
    /\ state = FsmLedger
    /\ file = FsmLedger
    /\ lastReconcile = ZeroTime
    /\ now = 0
    /\ diskFaulty = FALSE
    /\ op = [name |-> "New"]
    /\ IdleClassifier
    /\ IdleGoroutines
    /\ IdleFSM
    /\ IdleExecutor

NextFSM ==
    \/ DoStep
    \/ Tick

SpecFSM == InitFSM /\ [][NextFSM]_vars

-----------------------------------------------------------------------------
(* Properties of the ledger *)

TrackedMerged(s, m) == IF m \in DOMAIN s THEN s[m].TotalMerged ELSE 0

\* C1: in every reachable state of the ledger both leg balances of every entry
\* are >= 0, GetMergeablePairs of a tracked market is at most each leg's balance
\* (so at most their minimum), and GetMergeablePairs of an untracked market is 0.
C1_BalancesNonNegative ==
    \A m \in Markets :
        IF m \in DOMAIN state
        THEN /\ state[m].UpBalance >= 0
             /\ state[m].DownBalance >= 0
             /\ GetMergeablePairs(state, m) <= state[m].UpBalance
             /\ GetMergeablePairs(state, m) <= state[m].DownBalance
        ELSE GetMergeablePairs(state, m) = 0

\* a merge that asked for more pairs than the entry held has emptied a leg
C1_Witness ==
    /\ op.name = "RecordMerge"
    /\ op.conditionID \in DOMAIN state
    /\ op.pairs > state[op.conditionID].TotalMerged
    /\ state[op.conditionID].TotalMerged > 0
    /\ GetMergeablePairs(state, op.conditionID) = 0
    /\ \E m \in Markets : m \notin DOMAIN state

\* the entry of the spec's example: UP = 3, DOWN = 2
ExampleLedger ==
    [m \in {"m1"} |-> [NewEntry("u1", "d1") EXCEPT !.UpBalance = 3000, !.DownBalance = 2000]]

\* C2: RecordMerge(market, p) on a tracked market takes exactly
\* c = min(p, min(UpBalance, DownBalance)) from both legs and adds c to
\* TotalMerged, so UpBalance - DownBalance is unchanged; on an untracked market
\* it changes nothing; with UP = 3, DOWN = 2 and p = 1000 the result is
\* UP = 1, DOWN = 0, redeemable 0.
C2_MergeTakesClampedPairs ==
    /\ LET after == RecordMergeOn(ExampleLedger, "m1", 1000000) IN
          /\ after["m1"].UpBalance = 1000
          /\ after["m1"].DownBalance = 0
          /\ after["m1"].TotalMerged = 2000
          /\ GetMergeablePairs(after, "m1") = 0
    /\ [][\A m \in Markets, p \in PairAmounts, w \in BOOLEAN :
            (op'.name = "RecordMerge" /\ RecordMerge(m, p, w)) =>
               IF m \in DOMAIN state
               THEN LET e == state[m]
                        c == IF p < e.UpBalance /\ p < e.DownBalance THEN p
                             ELSE IF e.UpBalance < e.DownBalance THEN e.UpBalance
                             ELSE e.DownBalance
                    IN  /\ state' = [state EXCEPT ![m] =
                                       [e EXCEPT !.UpBalance = e.UpBalance - c,
                                                 !.DownBalance = e.DownBalance - c,
                                                 !.TotalMerged = e.TotalMerged + c]]
                        /\ state'[m].UpBalance - state'[m].DownBalance
                              = e.UpBalance - e.DownBalance
               ELSE state' = state]_vars

\* a clamped merge has acted on an entry with unequal legs
C2_Witness ==
    /\ op.name = "RecordMerge"
    /\ op.pairs = 1000000
    /\ op.conditionID \in DOMAIN state
    /\ state[op.conditionID].TotalMerged > 0
    /\ state[op.conditionID].UpBalance # state[op.conditionID].DownBalance

C4_ImbalanceNamesSurplusLeg ==
    \A m \in DOMAIN state :
        LET e == state[m]
            r == GetImbalance(state, m)
        IN  /\ e.UpBalance > e.DownBalance => r = <<"UP", e.UpBalance - e.DownBalance>>
            /\ e.DownBalance > e.UpBalance => r = <<"DOWN", e.DownBalance - e.UpBalance>>


-----------------------------------------------------------------------------
(* Properties of ReconcileFromAPI *)

\* a step is an unforced reconcile call made less than reconcileInterval after
\* the previous ledger call, itself an unforced reconcile call
SecondUnforcedCall(res, w) ==
    /\ op.name = "ReconcileFromAPI"
    /\ ~op.force
    /\ now - op.t < reconcileInterval
    /\ ReconcileFromAPI(FALSE, res, w)

\* C5 as stated: of two unforced ReconcileFromAPI calls less than 120 seconds
\* apart, the second fetches no trade history, leaves the ledger unchanged and
\* returns -1.
C5_SecondCallAlwaysSkipped ==
    [][\A res \in FetchResults, w \in BOOLEAN :
          SecondUnforcedCall(res, w) =>
             /\ op'.n = -1
             /\ ~op'.fetched
             /\ state' = state]_vars

\* C5 amended: of two unforced ReconcileFromAPI calls less than 120 seconds
\* apart of which the first was not itself skipped by the rate limit, the
\* second fetches no trade history, leaves the ledger, the file and
\* lastReconcile unchanged and returns -1; and every ReconcileFromAPI call
\* returns -1 exactly when it fetched nothing, so -1 is never the count (>= 0)
\* of a call that fetched.
C5_SecondCallSkippedAfterPerformedCall ==
    /\ [][\A res \in FetchResults, w \in BOOLEAN :
            (SecondUnforcedCall(res, w) /\ op.n # -1) =>
               /\ op'.n = -1
               /\ ~op'.fetched
               /\ state' = state
               /\ file' = file
               /\ lastReconcile' = lastReconcile]_vars
    /\ [](op.name = "ReconcileFromAPI" =>
             /\ op.n = -1 <=> ~op.fetched
             /\ op.fetched => op.n >= 0)

\* an unforced call was skipped 60 seconds after an unforced call that rebuilt
\* a non-empty ledger
C5_Witness ==
    /\ op.name = "ReconcileFromAPI"
    /\ ~op.force
    /\ op.n = -1
    /\ op.after.name = "ReconcileFromAPI"
    /\ ~op.after.force
    /\ op.after.n > 0
    /\ op.t - op.after.t \in 1 .. (reconcileInterval - 1)
    /\ lastReconcile = op.after.t
    /\ state # EmptyMap

\* the markets named by the trades of a history
MarketsIn(trades) == {trades[i].Market : i \in 1 .. Len(trades)} \ {""}

\* sum of the sizes of the CONFIRMED/MATCHED BUY trades of market m whose
\* outcome is one of `outcomes`
RECURSIVE BoughtIn(_, _, _)
BoughtIn(trades, m, outcomes) ==
    IF trades = <<>> THEN 0
    ELSE LET t == Head(trades) IN
         (IF /\ t.Market = m
             /\ t.Status \in {"CONFIRMED", "MATCHED"}
             /\ t.Side = "BUY"
             /\ t.Outcome \in outcomes
          THEN parseFloatStr(t.Size) ELSE 0)
         + BoughtIn(Tail(trades), m, outcomes)

\* C6: after a reconcile that performs a rebuild, for every market present in
\* the trade history each leg balance is max(0, sum of the sizes of the market's
\* CONFIRMED/MATCHED BUY trades for that leg - the TotalMerged the ledger held
\* for the market before the rebuild), and the market's TotalMerged is preserved.
C6_RebuildKeepsRedeemed ==
    [][\A force \in BOOLEAN, res \in FetchResults, w \in BOOLEAN :
          (/\ op'.name = "ReconcileFromAPI"
           /\ ~RateLimited(force)
           /\ ~res.err
           /\ Len(res.trades) > 0
           /\ ReconcileFromAPI(force, res, w)) =>
             \A m \in MarketsIn(res.trades) :
                LET merged == TrackedMerged(state, m) IN
                /\ GetBalance(state', m, "UP")
                     = Max(0, BoughtIn(res.trades, m, {"UP", "YES"}) - merged)
                /\ GetBalance(state', m, "DOWN")
                     = Max(0, BoughtIn(res.trades, m, {"DOWN", "NO"}) - merged)
                /\ TrackedMerged(state', m) = merged]_vars

\* C7: a ledger entry is never deleted: every market that has an entry has one
\* after every step, and its TotalMerged has not decreased.
C7_EntriesNeverDeleted ==
    [][\A m \in DOMAIN state :
          /\ m \in DOMAIN state'
          /\ state'[m].TotalMerged >= state[m].TotalMerged]_vars

-----------------------------------------------------------------------------
(* Properties of the ledger under concurrent callers *)

\* a call applied to a ledger in one piece
ApplyCall(s, c) ==
    IF c.name = "RecordBuy"
    THEN RecordBuyOn(s, c.conditionID, UpTokenOf(c.conditionID), DownTokenOf(c.conditionID),
                     c.side, c.tokens, c.usdc)
    ELSE RecordMergeOn(s, c.conditionID, c.pairs)

\* the ledger after the goroutines' calls ran one after another in the given order
RECURSIVE Serial(_, _)
Serial(s, order) ==
    IF order = <<>> THEN s
    ELSE Serial(ApplyCall(s, call[Head(order)]), Tail(order))

Orders == {o \in [1 .. NumProcs -> Procs] : \A i, j \in 1 .. NumProcs : o[i] = o[j] => i = j}

AllDone == \A p \in Procs : pc[p] = "done"

\* C8: for every interleaving of concurrent RecordBuy and RecordMerge calls,
\* once all calls returned the ledger equals the ledger produced by running
\* the calls one after another in some order from the starting ledger.
C8_MutationsSerialize ==
    AllDone => \E o \in Orders : state = Serial(state0, o)

\* all calls returned; two of them bought the same leg of the same market and
\* both increments are in the ledger
C8_Witness ==
    /\ AllDone
    /\ \E p, q \in Procs :
          /\ p # q
          /\ call[p].name = "RecordBuy"
          /\ call[q] = call[p]
          /\ GetBalance(state, call[p].conditionID, call[p].side)
               >= GetBalance(state0, call[p].conditionID, call[p].side) + 2 * call[p].tokens

-----------------------------------------------------------------------------
(* Properties of the price classifier *)

MomentumStates == {"MOMENTUM_UP", "MOMENTUM_DOWN"}

\* C9: ClassifyPrices returns RESOLVED whenever max(up, down) >= 0.99, for
\* every spread, arbitrage threshold and momentum trigger; in particular
\* classify(0.99, 0.50) = RESOLVED.
C9_ResolvedAtOrAbove99 ==
    /\ ClassifyPrices(990, 500, 970, 850) = "RESOLVED"
    /\ (cp.phase = "out" /\ (cp.up >= 990 \/ cp.down >= 990)) => cp.State = "RESOLVED"

\* a price of exactly 0.99 was classified RESOLVED although the momentum test
\* and the arbitrage test would both have passed
C9_Witness ==
    /\ cp.phase = "out"
    /\ cp.up = 990
    /\ cp.down < cp.up
    /\ cp.momentumTrigger < cp.up
    /\ cp.up + cp.down < cp.arbThreshold
    /\ cp.State = "RESOLVED"

\* C10: ClassifyPrices returns a momentum regime exactly when
\* momentum-trigger < max(up, down) < 0.99, whatever the price sum; with
\* trigger 0.85, classify(0.86, 0.14) is MOMENTUM_UP and classify(0.85, 0.15)
\* is not a momentum regime.
C10_MomentumStrictlyAboveTrigger ==
    /\ ClassifyPrices(860, 140, 970, 850) = "MOMENTUM_UP"
    /\ ClassifyPrices(850, 150, 970, 850) \notin MomentumStates
    /\ cp.phase = "out" =>
          LET top == IF cp.up >= cp.down THEN cp.up ELSE cp.down IN
          (cp.State \in MomentumStates <=> (cp.momentumTrigger < top /\ top < 990))

\* a price above the trigger was classified momentum although the price sum
\* was below the arbitrage threshold
C10_Witness ==
    /\ cp.phase = "out"
    /\ cp.State \in MomentumStates
    /\ cp.up + cp.down < cp.arbThreshold
    /\ cp.momentumTrigger = 850
    /\ cp.down = 860

\* C11: in the momentum case ClassifyPrices returns MOMENTUM_UP when the UP
\* price is the maximum of the two prices, equal prices included, and
\* MOMENTUM_DOWN otherwise, so the leg it names is the leg Prices.Winner names.
C11_MomentumLegIsWinner ==
    (cp.phase = "out" /\ cp.State \in MomentumStates) =>
        /\ cp.State = "MOMENTUM_UP" <=> cp.up >= cp.down
        /\ cp.State = (IF Winner(cp) = "UP" THEN "MOMENTUM_UP" ELSE "MOMENTUM_DOWN")

\* C12: when max(up, down) < 0.99 and max(up, down) <= momentum-trigger,
\* ClassifyPrices returns ARB if up + down < arbitrage-threshold and GREY
\* otherwise; with threshold 0.97, classify(0.40, 0.55) is ARB and
\* classify(0.48, 0.50) is GREY.
C12_ArbBelowThresholdElseGrey ==
    /\ ClassifyPrices(400, 550, 970, 850) = "ARB"
    /\ ClassifyPrices(480, 500, 970, 850) = "GREY"
    /\ LET top == IF cp.up >= cp.down THEN cp.up ELSE cp.down IN
       (cp.phase = "out" /\ top < 990 /\ top <= cp.momentumTrigger) =>
           cp.State = (IF cp.up + cp.down < cp.arbThreshold THEN "ARB" ELSE "GREY")

\* prices summing to exactly the arbitrage threshold, below the trigger, were
\* classified GREY
C12_Witness ==
    /\ cp.phase = "out"
    /\ cp.up + cp.down = cp.arbThreshold
    /\ cp.up < cp.momentumTrigger
    /\ cp.down < cp.momentumTrigger
    /\ cp.State = "GREY"

-----------------------------------------------------------------------------
(* Properties of the decision engine *)

\* the step is a Step call, with the arguments recorded in step'
StepTaken ==
    /\ step'.Kind # "none"
    /\ now' = now
    /\ Step(step'.conditionID, step'.prices, step'.minutesToClose)

\* C13: whenever the regime is RESOLVED or minutesToClose < 1, Step returns
\* MERGE if the ledger's mergeable pairs of the market exceed 0.01 and SKIP
\* otherwise, never a buy or WAIT, whatever the prices, cooldowns and spend
\* totals, and leaves the cooldown timestamps and spend counters as they were.
C13_ResolutionFirst ==
    /\ [](step.Kind # "none"
            /\ (step.prices.State = "RESOLVED" \/ step.minutesToClose < 1000)
          => /\ step.Kind = (IF GetMergeablePairs(state, step.conditionID) > 10
                             THEN "merge" ELSE "skip")
             /\ step.Kind \notin {"wait", "buy_arb", "buy_arb_both", "buy_momentum"}
             /\ step.botState = "RESOLUTION")
    /\ [][(StepTaken /\ (step'.prices.State = "RESOLVED" \/ step'.minutesToClose < 1000))
            => fsm' = fsm]_vars

\* with less than a minute to close, a momentum quote below the price ceiling
\* on a market that never bought and holds a pair was answered with MERGE
C13_Witness ==
    /\ step.Kind = "merge"
    /\ step.minutesToClose < 1000
    /\ step.prices.State = "MOMENTUM_UP"
    /\ step.prices.up <= MomentumMaxEntry
    /\ step.conditionID \notin DOMAIN fsm.lastMomentumTS
    /\ GetMergeablePairs(state, step.conditionID) = 1000

\* the step is a Step call for a market that emitted BUY_MOMENTUM less than
\* 120 seconds ago, in a momentum regime, with the price ceiling not exceeded
\* and the momentum spend cap not reached
MomentumStepInCooldown ==
    /\ StepTaken
    /\ step'.conditionID \in DOMAIN fsm.lastMomentumTS
    /\ now < fsm.lastMomentumTS[step'.conditionID] + 120
    /\ step'.prices.State \in MomentumStates
    /\ WinnerPrice(step'.prices) <= 920
    /\ Lookup(fsm.momentumSpent, step'.conditionID) < 30000

\* C14 as stated: after Step emitted BUY_MOMENTUM for a market at time t, every
\* later Step for that market in a momentum regime before t + 120 s, with the
\* price ceiling not exceeded and the spend cap not reached, returns WAIT.
C14_WaitDuringMomentumCooldown ==
    [][MomentumStepInCooldown => step'.Kind = "wait"]_vars

\* C14 amended: the same, for Step calls made with at least one minute to
\* close: such a call returns WAIT and changes no timestamp or counter; with
\* less than a minute to close it returns MERGE or SKIP; in both cases no buy
\* is emitted.  The time t is the market's lastMomentumTS entry: it is written
\* by exactly the Step calls that emit BUY_MOMENTUM, with the time of the call.
C14_WaitDuringMomentumCooldownBeforeClose ==
    /\ [][MomentumStepInCooldown =>
            /\ step'.minutesToClose >= 1000 => (step'.Kind = "wait" /\ fsm' = fsm)
            /\ step'.minutesToClose < 1000 => step'.Kind \in {"merge", "skip"}
            /\ step'.Kind \notin {"buy_momentum", "buy_arb", "buy_arb_both"}]_vars
    /\ [][StepTaken =>
            /\ step'.Kind = "buy_momentum" <=> fsm'.lastMomentumTS # fsm.lastMomentumTS
            /\ step'.Kind = "buy_momentum" =>
                   fsm'.lastMomentumTS = MapSet(fsm.lastMomentumTS, step'.conditionID, now)]_vars

\* four seconds after a momentum buy, a momentum quote below the ceiling with
\* half an hour to close was answered with WAIT
C14_Witness ==
    /\ step.Kind = "wait"
    /\ step.prices.State \in MomentumStates
    /\ WinnerPrice(step.prices) <= 920
    /\ step.minutesToClose >= 1000
    /\ step.conditionID \in DOMAIN fsm.lastMomentumTS
    /\ now - fsm.lastMomentumTS[step.conditionID] \in 1 .. 119
    /\ Lookup(fsm.momentumSpent, step.conditionID) < 30000

\* the step is a Step call in the regime of a strategy whose cumulative spend
\* for the market has reached its cap
StepAfterCapReached ==
    /\ StepTaken
    /\ \/ /\ step'.prices.State \in MomentumStates
          /\ Lookup(fsm.momentumSpent, step'.conditionID) >= 30000
       \/ /\ step'.prices.State = "ARB"
          /\ Lookup(fsm.arbSpent, step'.conditionID) >= 20000

\* C15 as stated: once a strategy's cumulative spend for a market has reached
\* its cap, every later Step for that market in that strategy's regime returns
\* SKIP.
C15_SkipAfterCap ==
    [][StepAfterCapReached => step'.Kind = "skip"]_vars

\* C15 amended: once a strategy's cumulative spend for a market has reached its
\* cap, every later Step for that market in that strategy's regime emits no
\* buy: it returns SKIP when minutesToClose >= 1, and MERGE or SKIP (the
\* resolution check) when minutesToClose < 1; it changes no counter, and no
\* Step ever lowers a spend counter, so this lasts for the process lifetime.
C15_NoBuyAfterCap ==
    /\ [][StepAfterCapReached =>
            /\ step'.Kind \notin {"buy_momentum", "buy_arb", "buy_arb_both"}
            /\ step'.minutesToClose >= 1000 => step'.Kind = "skip"
            /\ step'.minutesToClose < 1000 => step'.Kind \in {"merge", "skip"}
            /\ fsm' = fsm]_vars
    /\ [][\A m \in Markets :
            /\ Lookup(fsm'.momentumSpent, m) >= Lookup(fsm.momentumSpent, m)
            /\ Lookup(fsm'.arbSpent, m) >= Lookup(fsm.arbSpent, m)]_vars

\* an arbitrage quote on a market whose arbitrage spend is at the cap, with
\* the arbitrage cooldown over and half an hour to close, was answered SKIP
C15_Witness ==
    /\ step.Kind = "skip"
    /\ step.prices.State = "ARB"
    /\ step.minutesToClose >= 1000
    /\ Lookup(fsm.arbSpent, step.conditionID) >= 20000
    /\ now - fsm.lastArbTS[step.conditionID] >= 5

\* C16: in every reachable state, for every market, the momentum spend
\* counter is at most the momentum spend cap and the arbitrage spend counter
\* is at most the arbitrage spend cap.
C16_SpendWithinCap ==
    \A m \in Markets :
        /\ Lookup(fsm.momentumSpent, m) <= 30000
        /\ Lookup(fsm.arbSpent, m) <= 20000

-----------------------------------------------------------------------------
(* The executor: BuyMarket and MergePairs, called from the main goroutine *)

\* ReconcileFromAPI as a function of the ledger: what it leaves in inv.state and
\* inv.lastReconcile, what it returns (n), and whether it reached inv.save()
ReconcileResult(force, res) ==
    IF RateLimited(force)
    THEN [state |-> state, lastReconcile |-> lastReconcile, n |-> -1, saved |-> FALSE]
    ELSE IF res.err \/ Len(res.trades) = 0
    THEN [state |-> state, lastReconcile |-> now, n |-> 0, saved |-> FALSE]
    ELSE LET s == Reconciled(state, res.trades) IN
         [state |-> s, lastReconcile |-> now, n |-> Cardinality(DOMAIN s), saved |-> TRUE]

\* answers of the order endpoint: an error, a fill with both amounts, a fill
\* with the amounts missing
OrderResponses ==
    { [err |-> TRUE, takingAmount |-> 0, makingAmount |-> 0],
      [err |-> FALSE, takingAmount |-> 500, makingAmount |-> 250],
      [err |-> FALSE, takingAmount |-> 0, makingAmount |-> 0] }

\* BuyMarket with the error of PlaceMarketOrder ignored
OrderFailedNever(resp) == FALSE

\* resp, err := e.client.PlaceMarketOrder(...); err != nil
OrderFailed(resp) == resp.err

\* BuyMarket: the ledger it leaves, its OrderResult, the number of
\* PlaceMarketOrder calls it made and whether it called RecordBuy
BuyMarketResult(s, dryRun, conditionID, side, usdcAmount, priceHint, resp) ==
    IF dryRun
    THEN LET estimated == (usdcAmount * 1000) \div max64(priceHint, 10) IN
         [state |-> RecordBuyOn(s, conditionID, UpTokenOf(conditionID),
                                DownTokenOf(conditionID), side, estimated, usdcAmount),
          Success |-> TRUE, USDCSpent |-> usdcAmount, TokensReceived |-> estimated,
          placed |-> 0, recorded |-> TRUE]
    ELSE IF OrderFailed(resp)
    THEN [state |-> s, Success |-> FALSE, USDCSpent |-> 0, TokensReceived |-> 0,
          placed |-> 1, recorded |-> FALSE]
    ELSE LET usdcSpent == IF resp.makingAmount = 0 THEN usdcAmount ELSE resp.makingAmount
             tokensReceived ==
                 IF resp.takingAmount = 0 /\ usdcSpent > 0
                 THEN (usdcSpent * 1000) \div max64(priceHint, 10)
                 ELSE resp.takingAmount
         IN  [state |-> RecordBuyOn(s, conditionID, UpTokenOf(conditionID),
                                    DownTokenOf(conditionID), side, tokensReceived, usdcSpent),
              Success |-> TRUE, USDCSpent |-> usdcSpent, TokensReceived |-> tokensReceived,
              placed |-> 1, recorded |-> TRUE]

\* the chain as Merge finds it: the pairs the Safe holds, and whether the
\* Safe transaction goes through
ChainOutcomes ==
    { [onChainPairs |-> 1000, txOK |-> TRUE],
      [onChainPairs |-> 1000, txOK |-> FALSE],
      [onChainPairs |-> 500, txOK |-> TRUE],
      [onChainPairs |-> 0, txOK |-> TRUE] }

\* a merger that reports ready whatever its configuration
ReadyAlways(m) == TRUE

\* Merger.Ready()
Ready(m) == m.ready

\* Merger.Merge without the cap to the on-chain balance
MergeUncapped(m, pairs, chain) ==
    IF ~Ready(m) THEN [merged |-> 0, sent |-> FALSE, onChain |-> -1]
    ELSE IF pairs < 1
    THEN [merged |-> 0, sent |-> FALSE, onChain |-> chain.onChainPairs]
    ELSE IF ~chain.txOK
    THEN [merged |-> 0, sent |-> TRUE, onChain |-> chain.onChainPairs]
    ELSE [merged |-> pairs, sent |-> TRUE, onChain |-> chain.onChainPairs]

\* Merger.Merge: the pairs merged (0 on any failure), whether the
\* mergePositions transaction was sent, and the on-chain pair balance it read
\* (-1 when it returned before reading it)
Merge(m, pairs, chain) ==
    IF ~Ready(m) THEN [merged |-> 0, sent |-> FALSE, onChain |-> -1]
    ELSE LET capped == Min(pairs, chain.onChainPairs) IN
         IF capped < 1
         THEN [merged |-> 0, sent |-> FALSE, onChain |-> chain.onChainPairs]
         ELSE IF ~chain.txOK
         THEN [merged |-> 0, sent |-> TRUE, onChain |-> chain.onChainPairs]
         ELSE [merged |-> capped, sent |-> TRUE, onChain |-> chain.onChainPairs]

\* MergePairs recording the pairs it read whatever Merge returned
MergePairsRecordingFailure(s, dryRun, m, conditionID, chain) ==
    LET pairs == GetMergeablePairs(s, conditionID) IN
    IF pairs < 10
    THEN [state |-> s, pairs |-> pairs, returned |-> 0, sent |-> FALSE, onChain |-> -1,
          recorded |-> FALSE]
    ELSE IF dryRun
    THEN [state |-> RecordMergeOn(s, conditionID, pairs), pairs |-> pairs,
          returned |-> pairs, sent |-> FALSE, onChain |-> -1, recorded |-> TRUE]
    ELSE IF ~Ready(m)
    THEN [state |-> s, pairs |-> pairs, returned |-> 0, sent |-> FALSE, onChain |-> -1,
          recorded |-> FALSE]
    ELSE LET r == Merge(m, pairs, chain) IN
         [state |-> RecordMergeOn(s, conditionID, pairs),
          pairs |-> pairs, returned |-> r.merged, sent |-> r.sent, onChain |-> r.onChain,
          recorded |-> TRUE]

\* MergePairs without its threshold test
MergePairsNoThreshold(s, dryRun, m, conditionID, chain) ==
    LET pairs == GetMergeablePairs(s, conditionID) IN
    IF dryRun
    THEN [state |-> RecordMergeOn(s, conditionID, pairs), pairs |-> pairs,
          returned |-> pairs, sent |-> FALSE, onChain |-> -1, recorded |-> TRUE]
    ELSE IF ~Ready(m)
    THEN [state |-> s, pairs |-> pairs, returned |-> 0, sent |-> FALSE, onChain |-> -1,
          recorded |-> FALSE]
    ELSE LET r == Merge(m, pairs, chain) IN
         [state |-> IF r.merged > 0 THEN RecordMergeOn(s, conditionID, r.merged) ELSE s,
          pairs |-> pairs, returned |-> r.merged, sent |-> r.sent, onChain |-> r.onChain,
          recorded |-> r.merged > 0]

\* MergePairs after its pre-merge reconcile left the ledger s
MergePairsResult(s, dryRun, m, conditionID, chain) ==
    LET pairs == GetMergeablePairs(s, conditionID) IN
    IF pairs < 10
    THEN [state |-> s, pairs |-> pairs, returned |-> 0, sent |-> FALSE, onChain |-> -1,
          recorded |-> FALSE]
    ELSE IF dryRun
    THEN [state |-> RecordMergeOn(s, conditionID, pairs), pairs |-> pairs,
          returned |-> pairs, sent |-> FALSE, onChain |-> -1, recorded |-> TRUE]
    ELSE IF ~Ready(m)
    THEN [state |-> s, pairs |-> pairs, returned |-> 0, sent |-> FALSE, onChain |-> -1,
          recorded |-> FALSE]
    ELSE LET r == Merge(m, pairs, chain) IN
         [state |-> IF r.merged > 0 THEN RecordMergeOn(s, conditionID, r.merged) ELSE s,
          pairs |-> pairs, returned |-> r.merged, sent |-> r.sent, onChain |-> r.onChain,
          recorded |-> r.merged > 0]

BuyMarket(conditionID, side, usdcAmount, priceHint, resp, wrote) ==
    LET r == BuyMarketResult(state, ex.dryRun, conditionID, side, usdcAmount, priceHint, resp)
    IN  /\ Held(r.state) <= 1000 * MaxHeld
        /\ state' = r.state
        /\ file' = IF r.recorded THEN save(r.state, wrote) ELSE file
        /\ ex' = [ex EXCEPT !.last =
                     [conditionID |-> conditionID, side |-> side, name |-> "BuyMarket",
                      Success |-> r.Success, placed |-> r.placed,
                      failed |-> ~ex.dryRun /\ resp.err, before |-> state]]
        /\ UNCHANGED <<lastReconcile, now, diskFaulty, op>>

MergePairs(conditionID, res, chain, wrote) ==
    LET rec == ReconcileResult(FALSE, res)
        r   == MergePairsResult(rec.state, ex.dryRun, ex.merger, conditionID, chain)
    IN  /\ Merged(r.state) <= 1000 * MaxHeld
        /\ state' = r.state
        /\ lastReconcile' = rec.lastReconcile
        /\ file' = IF r.recorded THEN save(r.state, wrote)
                   ELSE IF rec.saved THEN save(rec.state, wrote)
                   ELSE file
        /\ ex' = [ex EXCEPT !.last =
                     [conditionID |-> conditionID, pairs |-> r.pairs, name |-> "MergePairs",
                      n |-> rec.n, sent |-> r.sent, onChain |-> r.onChain,
                      returned |-> r.returned, atRead |-> rec.state]]
        /\ UNCHANGED <<now, diskFaulty, op>>

\* the forced reconcile main makes at startup in live mode
StartupReconcile(res, wrote) ==
    /\ ~ex.dryRun
    /\ ex.last.name = "New"
    /\ ReconcileFromAPI(TRUE, res, wrote)
    /\ ex' = [ex EXCEPT !.last = [name |-> "ReconcileFromAPI"]]

\* executor.New: dry-run or live, with a merger that is ready or not
InitExec ==
    /\ state = EmptyMap
    /\ file = EmptyMap
    /\ lastReconcile = ZeroTime
    /\ now = 0
    /\ diskFaulty = FALSE
    /\ op = [name |-> "New"]
    /\ \E d \in BOOLEAN, rdy \in BOOLEAN :
          ex = [last |-> [name |-> "New"], dryRun |-> d, merger |-> [ready |-> rdy]]
    /\ IdleClassifier
    /\ IdleGoroutines
    /\ IdleFSM

DoBuyMarket ==
    \E side \in Sides, resp \in OrderResponses, wrote \in WriteOutcomes :
        BuyMarket("m1", side, 250, 500, resp, wrote)

\* what GetTrades answers to the pre-merge reconcile
MergeFetches ==
    { [err |-> TRUE, trades |-> <<>>],
      [err |-> FALSE, trades |-> <<tUp1, tDown1>>],
      [err |-> FALSE, trades |-> <<tUp1, tDown2>>] }

DoMergePairs ==
    \E conditionID \in Markets, res \in MergeFetches, chain \in ChainOutcomes,
       wrote \in WriteOutcomes :
        MergePairs(conditionID, res, chain, wrote)

DoStartupReconcile ==
    \E res \in MergeFetches, wrote \in WriteOutcomes : StartupReconcile(res, wrote)

NextExec ==
    \/ DoBuyMarket /\ UNCHANGED <<classVars, concVars, fsmVars>>
    \/ DoMergePairs /\ UNCHANGED <<classVars, concVars, fsmVars>>
    \/ DoStartupReconcile /\ UNCHANGED <<classVars, concVars, fsmVars>>
    \/ Advance /\ UNCHANGED <<classVars, concVars, fsmVars, execVars>>

SpecExec == InitExec /\ [][NextExec]_vars

-----------------------------------------------------------------------------
(* Properties of the executor *)

\* C17: when order placement fails, BuyMarket returns Success = false, makes
\* exactly one placement attempt, and leaves the ledger and its file as they
\* were before the call.
C17_FailedBuyLeavesLedger ==
    /\ [](ex.last.name = "BuyMarket" /\ ex.last.failed =>
            /\ ~ex.last.Success
            /\ ex.last.placed = 1
            /\ state = ex.last.before)
    /\ [][ex'.last.name = "BuyMarket" /\ ex'.last.failed /\ ex' # ex =>
            state' = state /\ file' = file]_vars

\* a live BuyMarket whose order was rejected, on a ledger that already holds
\* tokens of that market
C17_Witness ==
    /\ ex.last.name = "BuyMarket"
    /\ ex.last.failed
    /\ ex.last.conditionID \in DOMAIN state
    /\ state[ex.last.conditionID].UpBalance + state[ex.last.conditionID].DownBalance > 0

\* C19 as stated: every MergePairs call rebuilds the ledger from the trade
\* history before reading the redeemable pairs, even when another
\* reconciliation ran less than 120 seconds earlier: its pre-merge reconcile is
\* never skipped by the rate limit (never returns -1).
C19_MergeAlwaysReconciles ==
    ex.last.name = "MergePairs" => ex.last.n # -1

\* C20: in live mode with the merger not ready, MergePairs returns 0, sends no
\* settlement transaction and records no redemption: the ledger after the
\* call is the ledger the redeemable pairs were read from.
C20_NotReadyReturnsZero ==
    /\ ex.last.name = "MergePairs"
    /\ ~ex.dryRun
    /\ ~ex.merger.ready
    => /\ ex.last.returned = 0
       /\ ~ex.last.sent
       /\ state = ex.last.atRead

\* a live MergePairs with the merger not ready that read a full pair
C20_Witness ==
    /\ ex.last.name = "MergePairs"
    /\ ~ex.dryRun
    /\ ~ex.merger.ready
    /\ ex.last.pairs >= 1000
    /\ state[ex.last.conditionID].TotalMerged = 0

-----------------------------------------------------------------------------
(* BuyArbBoth: the caller (process 0) and the two leg goroutines *)

\* wg.Add(2): leg 1 buys UP, leg 2 buys DOWN
ArbLegs == {1, 2}

LegSide(l) == IF l = 1 THEN "UP" ELSE "DOWN"

\* how a leg's order ends: BuyMarket / BuyLimit either records the fill and
\* returns Success = true, or returns Success = false without recording
LegOutcomes == {"filled", "failed"}

\* wg.Wait() returning as soon as one leg is done
WaitDoneAny == \E l \in ArbLegs : pc[l] = "done"

\* wg.Wait(): both deferred wg.Done() calls have run
WaitDone == \A l \in ArbLegs : pc[l] = "done"

\* a leg places its order; on a fill it goes on to RecordBuy
Place(self) ==
    /\ pc[self] = "place"
    /\ \E o \in (IF ex.dryRun THEN {"filled"} ELSE LegOutcomes) :
          /\ ex' = [ex EXCEPT !.outcome[self] = o]
          /\ pc' = [pc EXCEPT ![self] = IF o = "filled" THEN "lock" ELSE "done"]
    /\ UNCHANGED <<state, file, tmp, mu, frameConc>>

\* wg.Wait() and the return of BuyArbBoth
Return ==
    /\ pc[0] = "wait"
    /\ WaitDone
    /\ pc' = [pc EXCEPT ![0] = "returned"]
    /\ UNCHANGED <<state, file, tmp, mu, frameConc, ex>>

InitArb ==
    /\ state0 \in LoadedLedgers
    /\ state = state0
    /\ file = state0
    /\ \E m \in Markets :
          call = [l \in ArbLegs |->
                     [name |-> "RecordBuy", conditionID |-> m, side |-> LegSide(l),
                      tokens |-> 1000, usdc |-> 500]]
    /\ pc = [p \in {0} \cup ArbLegs |-> IF p = 0 THEN "wait" ELSE "place"]
    /\ tmp = [l \in ArbLegs |-> [mergeable |-> 0, reg |-> 0]]
    /\ mu = 0
    /\ lastReconcile = ZeroTime
    /\ now = 0
    /\ diskFaulty = FALSE
    /\ op = [name |-> "New"]
    /\ \E d \in BOOLEAN :
          ex = [name |-> "BuyArbBoth", dryRun |-> d,
                outcome |-> [l \in ArbLegs |-> "pending"]]
    /\ IdleClassifier
    /\ IdleFSM

NextArb ==
    \/ \E self \in ArbLegs :
          \/ Place(self) /\ UNCHANGED <<classVars, fsmVars>>
          \/ Lock(self) /\ UNCHANGED <<classVars, fsmVars, execVars>>
          \/ Ensure(self) /\ UNCHANGED <<classVars, fsmVars, execVars>>
          \/ Load(self) /\ UNCHANGED <<classVars, fsmVars, execVars>>
          \/ Store(self) /\ UNCHANGED <<classVars, fsmVars, execVars>>
          \/ Save(self) /\ UNCHANGED <<classVars, fsmVars, execVars>>
          \/ Unlock(self) /\ UNCHANGED <<classVars, fsmVars, execVars>>
    \/ Return /\ UNCHANGED <<classVars, fsmVars>>

SpecArb == InitArb /\ [][NextArb]_vars

\* the ledger with the fill of every leg that succeeded recorded once
ArbExpected ==
    LET cid == call[1].conditionID
        s1  == IF ex.outcome[1] = "filled"
               THEN RecordBuyOn(state0, cid, UpTokenOf(cid), DownTokenOf(cid),
                                call[1].side, call[1].tokens, call[1].usdc)
               ELSE state0
    IN  IF ex.outcome[2] = "filled"
        THEN RecordBuyOn(s1, cid, UpTokenOf(cid), DownTokenOf(cid),
                         call[2].side, call[2].tokens, call[2].usdc)
        ELSE s1

\* C18: BuyArbBoth returns only after both legs have completed, and on
\* return the ledger (and its file) holds exactly the fill of every leg that
\* succeeded: both fills when both succeed, one fill when the other leg
\* failed, with no fill lost to the concurrent update; a leg that failed
\* never stops the other from completing.
C18_BothLegsRecorded ==
    /\ [](pc[0] = "returned" =>
            /\ \A l \in ArbLegs : pc[l] = "done" /\ ex.outcome[l] \in LegOutcomes
            /\ mu = 0
            /\ state = ArbExpected
            /\ file = ArbExpected)
    /\ [](\A l \in ArbLegs :
            ex.outcome[l] = "filled" /\ pc[l] # "done" => ENABLED NextArb)

\* a live BuyArbBoth has returned with both legs filled, on a ledger that
\* already held the market, and each leg balance has grown by its fill
C18_Witness ==
    /\ pc[0] = "returned"
    /\ ~ex.dryRun
    /\ ex.outcome[1] = "filled"
    /\ ex.outcome[2] = "filled"
    /\ call[1].conditionID \in DOMAIN state0
    /\ GetBalance(state, call[1].conditionID, "UP")
           = GetBalance(state0, call[1].conditionID, "UP") + 1000
    /\ GetBalance(state, call[1].conditionID, "DOWN")
           = GetBalance(state0, call[1].conditionID, "DOWN") + 1000

\* the pairs the last MergePairs call recorded as redeemed for its market
RedeemedByLastCall ==
    Lookup([m \in DOMAIN state |-> state[m].TotalMerged], ex.last.conditionID)
        - Lookup([m \in DOMAIN ex.last.atRead |-> ex.last.atRead[m].TotalMerged],
                 ex.last.conditionID)

\* the last call was a live MergePairs whose Merge read the on-chain balance
LiveMergeConsulted ==
    /\ ex.last.name = "MergePairs"
    /\ ~ex.dryRun
    /\ ex.last.onChain >= 0

\* C21: the amount a live MergePairs settles and records as redeemed exceeds
\* neither the on-chain pair balance nor the ledger's redeemable pairs, and
\* when it merges with the on-chain balance below the ledger's view, the
\* on-chain value is the amount merged and recorded.
C21_MergeCappedOnChain ==
    LiveMergeConsulted =>
        /\ ex.last.returned <= ex.last.onChain
        /\ ex.last.returned <= ex.last.pairs
        /\ RedeemedByLastCall = ex.last.returned
        /\ (ex.last.returned > 0 /\ ex.last.onChain < ex.last.pairs
               => ex.last.returned = ex.last.onChain)

\* a live merge of a ledger pair of 1.0 against an on-chain balance of 0.5
C21_Witness ==
    /\ LiveMergeConsulted
    /\ ex.last.pairs = 1000
    /\ ex.last.onChain = 500
    /\ ex.last.returned = 500
    /\ state[ex.last.conditionID].TotalMerged >= 500

MomentumStepAboveCeiling ==
    /\ StepTaken
    /\ step'.prices.State \in MomentumStates
    /\ max64(step'.prices.up, step'.prices.down) > 920

\* C30 as stated: in a momentum regime with the winner price above the
\* max-entry ceiling, Step returns SKIP and leaves the market's momentum
\* last-action time and spend counter unchanged.
C30_SkipAboveCeiling ==
    [][MomentumStepAboveCeiling => step'.Kind = "skip" /\ fsm' = fsm]_vars

\* C30 amended: in a momentum regime with the winner price above the
\* max-entry ceiling, Step emits no buy and leaves every timestamp and counter
\* unchanged; it returns SKIP when minutesToClose >= 1, and MERGE or SKIP (the
\* resolution check) when minutesToClose < 1.
C30_NoEntryAboveCeiling ==
    [][MomentumStepAboveCeiling =>
        /\ fsm' = fsm
        /\ step'.Kind \notin {"buy_momentum", "buy_arb", "buy_arb_both"}
        /\ step'.minutesToClose >= 1000 => step'.Kind = "skip"
        /\ step'.minutesToClose < 1000 => step'.Kind \in {"merge", "skip"}]_vars

\* a momentum quote at 0.95 with half an hour to close, the cap not reached
\* and no cooldown active, was answered SKIP
C30_Witness ==
    /\ step.Kind = "skip"
    /\ step.prices.State \in MomentumStates
    /\ max64(step.prices.up, step.prices.down) > 920
    /\ step.minutesToClose >= 1000
    /\ Lookup(fsm.momentumSpent, step.conditionID) < 30000
    /\ \/ step.conditionID \notin DOMAIN fsm.lastMomentumTS
       \/ now - fsm.lastMomentumTS[step.conditionID] >= 120

-----------------------------------------------------------------------------
(* The ledger on a disk whose writes may fail *)

InitDisk ==
    /\ state = EmptyMap
    /\ file = EmptyMap
    /\ lastReconcile = ZeroTime
    /\ now = 0
    /\ diskFaulty = TRUE
    /\ op = [name |-> "New"]
    /\ IdleClassifier
    /\ IdleGoroutines
    /\ IdleFSM
    /\ IdleExecutor

\* the mutating calls: buys on one market, merges on a tracked and on an
\* untracked market, forced reconciles
DoRecordBuyDisk ==
    \E side \in Sides, fill \in Fills, wrote \in WriteOutcomes :
        RecordBuy("m1", side, fill[1], fill[2], wrote)

DoRecordMergeDisk ==
    \E conditionID \in Markets, wrote \in WriteOutcomes :
        RecordMerge(conditionID, 500, wrote)

DoReconcileDisk ==
    \E res \in MergeFetches, wrote \in WriteOutcomes :
        ReconcileFromAPI(TRUE, res, wrote)

NextDisk ==
    \/ DoRecordBuyDisk /\ UNCHANGED <<classVars, concVars, fsmVars, execVars>>
    \/ DoRecordMergeDisk /\ UNCHANGED <<classVars, concVars, fsmVars, execVars>>
    \/ DoReconcileDisk /\ UNCHANGED <<classVars, concVars, fsmVars, execVars>>

SpecDisk == InitDisk /\ [][NextDisk]_vars

\* the step is a ledger call (every call rewrites op; a repeated call that
\* changes nothing at all is a stuttering step)
LedgerCall == <<op, state, file>>' # <<op, state, file>>

\* the in-memory entry set a mutating call must leave
KeptInMemory ==
    CASE op'.name = "RecordBuy" ->
             state' = RecordBuyOn(state, op'.conditionID, UpTokenOf(op'.conditionID),
                                  DownTokenOf(op'.conditionID), op'.side, op'.tokens, op'.usdc)
      [] op'.name = "RecordMerge" ->
             state' = RecordMergeOn(state, op'.conditionID, op'.pairs)
      [] op'.name = "ReconcileFromAPI" ->
             IF op'.n >= 1
             THEN \E res \in MergeFetches : ~res.err /\ state' = Reconciled(state, res.trades)
             ELSE state' = state
      [] OTHER -> FALSE

\* the call reached inv.save()
Saving ==
    \/ op'.name = "RecordBuy"
    \/ op'.name = "RecordMerge" /\ op'.conditionID \in DOMAIN state
    \/ op'.name = "ReconcileFromAPI" /\ op'.n >= 1

\* C27: every RecordBuy, RecordMerge on a tracked market and rebuilding
\* reconcile leaves its in-memory result whether or not the write succeeds;
\* when the write succeeds the file equals the in-memory entry set, when it
\* fails the file is left as it was (no retry); a call that does not reach
\* save() leaves the file alone.
C27_WriteThroughBestEffort ==
    [][LedgerCall =>
        /\ KeptInMemory
        /\ Saving /\ op'.wrote => file' = state'
        /\ Saving /\ ~op'.wrote => file' = file
        /\ ~Saving => file' = file]_vars

\* a buy whose write failed: the ledger holds the buy, the file does not
C27_Witness ==
    /\ op.name = "RecordBuy"
    /\ ~op.wrote
    /\ file # state
    /\ GetBalance(state, op.conditionID, op.side) >= op.tokens

\* a rebuilding reconcile whose write succeeded after an earlier write failed
C27_WitnessWritten ==
    /\ op.name = "ReconcileFromAPI"
    /\ op.n >= 1
    /\ op.wrote
    /\ file = state

-----------------------------------------------------------------------------
(* One tick of the main loop for a market: Step, then executeAction *)

tUp5   == Trade("m1", "BUY", "UP",   "5", "0.5", "CONFIRMED", "u1")
tDown5 == Trade("m1", "BUY", "DOWN", "5", "0.5", "CONFIRMED", "d1")
tDown7 == Trade("m1", "BUY", "DOWN", "7", "0.5", "CONFIRMED", "d1")

\* what the collaborators answer during a tick: the order endpoint to the first
\* and second order, the trade history, the chain
TickEnvs ==
    [resp1 : {[err |-> TRUE, takingAmount |-> 0, makingAmount |-> 0],
              [err |-> FALSE, takingAmount |-> 0, makingAmount |-> 0]},
     resp2 : {[err |-> FALSE, takingAmount |-> 0, makingAmount |-> 0]},
     res   : {[err |-> TRUE, trades |-> <<>>],
              [err |-> FALSE, trades |-> <<tUp5, tDown5>>],
              [err |-> FALSE, trades |-> <<tUp5, tDown7>>]},
     chain : {[onChainPairs |-> 5000, txOK |-> TRUE],
              [onChainPairs |-> 5000, txOK |-> FALSE]}]

\* the quotes of the ticks: arbitrage, resolved, momentum up, momentum down
TickQuotes == { <<500, 450>>, <<995, 10>>, <<860, 140>>, <<140, 860>> }

\* executeAction with no case for MERGE
ExecuteActionIgnoringMerge(dryRun, m, conditionID, action, prices, env) ==
    [state |-> state, lastReconcile |-> lastReconcile, saved |-> FALSE,
     calls |-> <<>>, returned |-> 0, atRead |-> state]

\* executeAction: the ledger it leaves, the executor calls it made, what
\* MergePairs returned and the ledger it read the pairs from
ExecuteAction(dryRun, m, conditionID, action, prices, env) ==
    CASE action.Kind = "buy_arb" ->
             LET priceHint == IF action.Side = "DOWN" THEN prices.down ELSE prices.up
                 r == BuyMarketResult(state, dryRun, conditionID, action.Side,
                                      action.ArbUSDC, priceHint, env.resp1)
             IN  [state |-> r.state, lastReconcile |-> lastReconcile, saved |-> r.recorded,
                  calls |-> <<"BuyMarket">>, returned |-> 0, atRead |-> state]
      [] action.Kind = "buy_momentum" ->
             LET mainPrice  == IF action.MainSide = "DOWN" THEN prices.down ELSE prices.up
                 hedgePrice == prices.down
                 r1 == BuyMarketResult(state, dryRun, conditionID, action.MainSide,
                                       action.MainUSDC, mainPrice, env.resp1)
                 r2 == BuyMarketResult(r1.state, dryRun, conditionID, action.HedgeSide,
                                       action.HedgeUSDC, hedgePrice, env.resp2)
             IN  [state |-> r2.state, lastReconcile |-> lastReconcile,
                  saved |-> r1.recorded \/ r2.recorded,
                  calls |-> <<"BuyMarket", "BuyMarket">>, returned |-> 0, atRead |-> state]
      [] action.Kind = "merge" ->
             LET rec == ReconcileResult(FALSE, env.res)
                 r   == MergePairsResult(rec.state, dryRun, m, conditionID, env.chain)
             IN  [state |-> r.state, lastReconcile |-> rec.lastReconcile,
                  saved |-> rec.saved \/ r.recorded,
                  calls |-> <<"MergePairs">>, returned |-> r.returned, atRead |-> rec.state]
      [] OTHER ->
             [state |-> state, lastReconcile |-> lastReconcile, saved |-> FALSE,
              calls |-> <<>>, returned |-> 0, atRead |-> state]

\* the body of the "Process each market" loop for market conditionID
MarketTick(conditionID, prices, minutesToClose, env) ==
    LET r == StepResult(fsm, conditionID, prices, minutesToClose,
                        GetMergeablePairs(state, conditionID), now)
        x == ExecuteAction(ex.dryRun, ex.merger, conditionID, r.action, prices, env)
    IN  /\ fsm' = r.fsm
        /\ step' = [conditionID |-> conditionID, Kind |-> r.action.Kind, prices |-> prices,
                    minutesToClose |-> minutesToClose,
                    botState |-> r.botState, action |-> r.action]
        /\ state' = x.state
        /\ lastReconcile' = x.lastReconcile
        /\ file' = IF x.saved THEN x.state ELSE file
        /\ ex' = [ex EXCEPT !.last =
                     [name |-> "executeAction", returned |-> x.returned, before |-> state,
                      atRead |-> x.atRead, calls |-> x.calls, fresh |-> fsm = NewFSM,
                      ordersOK |-> ~env.resp1.err /\ ~env.resp2.err]]
        /\ UNCHANGED <<now, diskFaulty, op, classVars, concVars>>

\* a ledger that is empty, or holds 5 UP and 5 DOWN of market m1
TickLedgers ==
    { EmptyMap,
      [m \in {"m1"} |-> [NewEntry("u1", "d1") EXCEPT !.UpBalance = 5000, !.DownBalance = 5000,
                                                    !.TotalInvested = 5000]] }

InitTick ==
    /\ state \in TickLedgers
    /\ file = state
    /\ lastReconcile = ZeroTime
    /\ now = 0
    /\ diskFaulty = FALSE
    /\ op = [name |-> "New"]
    /\ fsm = NewFSM
    /\ step = [Kind |-> "none"]
    /\ \E d \in BOOLEAN :
          ex = [last |-> [name |-> "New"], dryRun |-> d, merger |-> [ready |-> TRUE]]
    /\ IdleClassifier
    /\ IdleGoroutines

DoMarketTick ==
    \E q \in TickQuotes, env \in TickEnvs : MarketTick("m1", PricesOf(q), 60000, env)

\* the ticks made within the same second (no cooldown expires between them)
NextTick == DoMarketTick

SpecTick == InitTick /\ [][NextTick]_vars

-----------------------------------------------------------------------------
(* End-to-end ticks *)

LegOf(s, conditionID, side) == GetBalance(s, conditionID, side)
InvestedOf(s, conditionID) ==
    IF conditionID \in DOMAIN s THEN s[conditionID].TotalInvested ELSE 0
RedeemedOf(s, conditionID) ==
    IF conditionID \in DOMAIN s THEN s[conditionID].TotalMerged ELSE 0

\* the last tick was the arbitrage scenario: UP 0.50, DOWN 0.45, 60 minutes to
\* close, no prior engine state, every order accepted
ArbTick ==
    /\ ex.last.name = "executeAction"
    /\ ex.last.fresh
    /\ ex.last.ordersOK
    /\ step.prices.up = 500
    /\ step.prices.down = 450
    /\ step.minutesToClose = 60000

\* C23: after the arbitrage tick the regime is ARB, the action is BUY_BOTH
\* with the two configured order sizes, both leg balances of the market have
\* increased and the invested total has increased by the sum of both fills.
C23_ArbTickBuysBothLegs ==
    ArbTick =>
        /\ step.prices.State = "ARB"
        /\ step.action = BuyArbBothAction(ARBOrderUSDC, ARBOrderUSDC)
        /\ LegOf(state, step.conditionID, "UP") > LegOf(ex.last.before, step.conditionID, "UP")
        /\ LegOf(state, step.conditionID, "DOWN")
               > LegOf(ex.last.before, step.conditionID, "DOWN")
        /\ InvestedOf(state, step.conditionID)
               = InvestedOf(ex.last.before, step.conditionID) + 2 * ARBOrderUSDC

\* the last tick was the merge scenario: prices 0.995 / 0.01 on a market whose
\* entry held UP = 5 and DOWN = 5 when the tick began
MergeTick ==
    /\ ex.last.name = "executeAction"
    /\ step.prices.up = 995
    /\ step.prices.down = 10
    /\ LegOf(ex.last.before, step.conditionID, "UP") = 5000
    /\ LegOf(ex.last.before, step.conditionID, "DOWN") = 5000

BothLegsRedeemed ==
    /\ LegOf(state, step.conditionID, "UP") = 0
    /\ LegOf(state, step.conditionID, "DOWN") = 0
    /\ RedeemedOf(state, step.conditionID)
           = RedeemedOf(ex.last.before, step.conditionID) + 5000

\* the settlement of the full 5 pairs succeeded (live mode)
SettledFive == ~ex.dryRun /\ ex.last.returned = 5000

\* C24 as stated: in the merge scenario the engine emits MERGE, and after a
\* settlement of the full 5 pairs both balances are 0 and the redeemed total
\* has increased by 5.
C24_MergeTickZeroesBalances ==
    MergeTick =>
        /\ step.Kind = "merge"
        /\ SettledFive => BothLegsRedeemed

\* C24 amended: in the merge scenario the engine emits MERGE and MergePairs is
\* called; when the ledger MergePairs reads after its pre-merge reconcile
\* still holds UP = 5 and DOWN = 5, a settlement of the full 5 pairs leaves
\* both balances 0 and the redeemed total increased by 5; in every case a
\* settlement of 5 pairs takes 5 from both legs as read and adds 5 to the
\* redeemed total.
C24_MergeTickRedeemsPairsRead ==
    MergeTick =>
        /\ step.Kind = "merge"
        /\ ex.last.calls = <<"MergePairs">>
        /\ SettledFive =>
              /\ LegOf(state, step.conditionID, "UP")
                     = LegOf(ex.last.atRead, step.conditionID, "UP") - 5000
              /\ LegOf(state, step.conditionID, "DOWN")
                     = LegOf(ex.last.atRead, step.conditionID, "DOWN") - 5000
              /\ RedeemedOf(state, step.conditionID)
                     = RedeemedOf(ex.last.before, step.conditionID) + 5000
        /\ /\ SettledFive
           /\ LegOf(ex.last.atRead, step.conditionID, "UP") = 5000
           /\ LegOf(ex.last.atRead, step.conditionID, "DOWN") = 5000
           => BothLegsRedeemed

\* a live merge tick settled 5 pairs and left both balances 0
C24_Witness ==
    /\ MergeTick
    /\ SettledFive
    /\ BothLegsRedeemed


-----------------------------------------------------------------------------
(* BuyLimit, and the executor in simulate mode *)

\* answers to a limit order: PlaceLimitOrder fails; it is matched at once
\* (with or without takingAmount); or it rests and the poll loop ends with the
\* order matched, partly filled, cancelled, or at the deadline
LimitResponses ==
    { [err |-> TRUE,  takingAmount |-> 0,   status |-> "",        poll |-> "none",      sizeFilled |-> 0],
      [err |-> FALSE, takingAmount |-> 0,   status |-> "matched", poll |-> "none",      sizeFilled |-> 0],
      [err |-> FALSE, takingAmount |-> 250, status |-> "matched", poll |-> "none",      sizeFilled |-> 0],
      [err |-> FALSE, takingAmount |-> 0,   status |-> "live",    poll |-> "matched",   sizeFilled |-> 0],
      [err |-> FALSE, takingAmount |-> 0,   status |-> "live",    poll |-> "live",      sizeFilled |-> 250],
      [err |-> FALSE, takingAmount |-> 0,   status |-> "live",    poll |-> "cancelled", sizeFilled |-> 0],
      [err |-> FALSE, takingAmount |-> 0,   status |-> "live",    poll |-> "timeout",   sizeFilled |-> 0] }

\* tokenSize := usdcAmount / limitPrice
TokenSize(usdcAmount, limitPrice) == (usdcAmount * 1000) \div limitPrice

\* BuyLimit past its dry-run branch: PlaceLimitOrder, the immediate match,
\* the poll loop, and CancelOrder when the loop ends without a fill
BuyLimitLive(s, conditionID, side, usdcAmount, limitPrice, resp) ==
    LET tokenSize == TokenSize(usdcAmount, limitPrice)
        bought(tokens) ==
            RecordBuyOn(s, conditionID, UpTokenOf(conditionID), DownTokenOf(conditionID),
                        side, tokens, usdcAmount)
    IN  IF resp.err
        THEN [state |-> s, Success |-> FALSE, TokensReceived |-> 0, placed |-> 1,
              polled |-> FALSE, cancelled |-> FALSE, recorded |-> FALSE]
        ELSE IF resp.status = "matched"
        THEN LET tokensReceived == IF resp.takingAmount = 0 THEN tokenSize
                                   ELSE resp.takingAmount
             IN  [state |-> bought(tokensReceived), Success |-> TRUE,
                  TokensReceived |-> tokensReceived, placed |-> 1,
                  polled |-> FALSE, cancelled |-> FALSE, recorded |-> TRUE]
        ELSE IF resp.poll = "matched" \/ (resp.poll = "live" /\ resp.sizeFilled > 0)
        THEN LET tokensReceived == IF resp.sizeFilled = 0 THEN tokenSize
                                   ELSE resp.sizeFilled
             IN  [state |-> bought(tokensReceived), Success |-> TRUE,
                  TokensReceived |-> tokensReceived, placed |-> 1,
                  polled |-> TRUE, cancelled |-> FALSE, recorded |-> TRUE]
        ELSE [state |-> s, Success |-> FALSE, TokensReceived |-> 0, placed |-> 1,
              polled |-> TRUE, cancelled |-> TRUE, recorded |-> FALSE]

\* BuyLimit without its dry-run branch
BuyLimitPlacingAlways(s, dryRun, conditionID, side, usdcAmount, limitPrice, resp) ==
    BuyLimitLive(s, conditionID, side, usdcAmount, limitPrice, resp)

\* BuyLimit: the ledger it leaves, its OrderResult, the PlaceLimitOrder,
\* GetOrderStatus and CancelOrder calls it made, whether it called RecordBuy
BuyLimitResult(s, dryRun, conditionID, side, usdcAmount, limitPrice, resp) ==
    IF dryRun
    THEN LET tokenSize == TokenSize(usdcAmount, limitPrice) IN
         [state |-> RecordBuyOn(s, conditionID, UpTokenOf(conditionID),
                                DownTokenOf(conditionID), side, tokenSize, usdcAmount),
          Success |-> TRUE, TokensReceived |-> tokenSize, placed |-> 0,
          polled |-> FALSE, cancelled |-> FALSE, recorded |-> TRUE]
    ELSE BuyLimitLive(s, conditionID, side, usdcAmount, limitPrice, resp)

BuyLimit(conditionID, side, usdcAmount, limitPrice, resp, wrote) ==
    LET r == BuyLimitResult(state, ex.dryRun, conditionID, side, usdcAmount, limitPrice, resp)
    IN  /\ Held(r.state) <= 1000 * MaxHeld
        /\ state' = r.state
        /\ file' = IF r.recorded THEN save(r.state, wrote) ELSE file
        /\ ex' = [ex EXCEPT !.last =
                     [conditionID |-> conditionID, side |-> side, name |-> "BuyLimit",
                      Success |-> r.Success, placed |-> r.placed, before |-> state,
                      polled |-> r.polled, cancelled |-> r.cancelled]]
        /\ UNCHANGED <<lastReconcile, now, diskFaulty, op>>

DoBuyLimit ==
    \E side \in Sides, resp \in LimitResponses, wrote \in WriteOutcomes :
        BuyLimit("m1", side, 250, 500, resp, wrote)

\* the chain holds the pairs and the transaction goes through, or it reverts
SimChain == { c \in ChainOutcomes : c.onChainPairs = 1000 }

DoMergePairsSim ==
    \E res \in MergeFetches, chain \in SimChain, wrote \in WriteOutcomes :
        MergePairs("m1", res, chain, wrote)

\* the three entry points of the executor, in either mode
NextSim ==
    \/ DoBuyMarket /\ UNCHANGED <<classVars, concVars, fsmVars>>
    \/ DoBuyLimit /\ UNCHANGED <<classVars, concVars, fsmVars>>
    \/ DoMergePairsSim /\ UNCHANGED <<classVars, concVars, fsmVars>>

SpecSim == InitExec /\ [][NextSim]_vars

\* what the last buy (market or limit) added to the leg it bought, and to the
\* collateral invested in its market
BoughtByLastCall ==
    LegOf(state, ex.last.conditionID, ex.last.side)
        - LegOf(ex.last.before, ex.last.conditionID, ex.last.side)
SpentByLastCall ==
    InvestedOf(state, ex.last.conditionID) - InvestedOf(ex.last.before, ex.last.conditionID)

\* C28: in simulate mode BuyMarket makes no PlaceMarketOrder call and records
\* collateral / max(priceHint, 0.01) tokens (250 / 0.50 = 500 here); BuyLimit
\* makes no PlaceLimitOrder, GetOrderStatus or CancelOrder call and records
\* collateral / limitPrice tokens; MergePairs sends no transaction, does not
\* consult the chain, and records the redeemable pairs of the ledger it read
\* (when they reach the 0.01 threshold) as redeemed
C28_SimulateCallsNoCollaborator ==
    ex.dryRun =>
        /\ ex.last.name = "BuyMarket" =>
              /\ ex.last.placed = 0
              /\ ex.last.Success
              /\ BoughtByLastCall = (250 * 1000) \div max64(500, 10)
              /\ SpentByLastCall = 250
        /\ ex.last.name = "BuyLimit" =>
              /\ ex.last.placed = 0
              /\ ~ex.last.polled
              /\ ~ex.last.cancelled
              /\ ex.last.Success
              /\ BoughtByLastCall = (250 * 1000) \div 500
              /\ SpentByLastCall = 250
        /\ ex.last.name = "MergePairs" =>
              /\ ~ex.last.sent
              /\ ex.last.onChain = -1
              /\ ex.last.pairs >= 10 =>
                    /\ ex.last.returned = ex.last.pairs
                    /\ RedeemedByLastCall = ex.last.pairs
              /\ ex.last.pairs < 10 => RedeemedByLastCall = 0

\* a simulated limit buy was recorded on top of an earlier buy, and a simulated
\* merge then recorded pairs
C28_Witness ==
    /\ ex.dryRun
    /\ ex.last.name = "BuyLimit"
    /\ ex.last.before # EmptyMap
    /\ BoughtByLastCall = 500

C28_WitnessMerge ==
    /\ ex.dryRun
    /\ ex.last.name = "MergePairs"
    /\ ex.last.pairs >= 10
    /\ RedeemedByLastCall = ex.last.pairs

-----------------------------------------------------------------------------
(* The process: the main loop, the user feed and the signal goroutine *)

\* the market lists GetActiveMarkets hands the loop: one well-formed market, or
\* a market whose conditionId is short followed by a well-formed one
ProcLists == { <<"m1">>, <<"mx", "m1">> }

\* the number of bytes of the identifier a model name stands for: condition
\* ids are 66-byte hex strings; parseMarket rejects only the empty one
IDLen(conditionID) == IF conditionID = "mx" THEN 4 ELSE 66

\* s[:k] on a string of n bytes: it panics when n < k
SliceOK(n, k) == n >= k

\* the fill events the user feed delivers for an order recorded with
\* `recorded` tokens: order_id and transaction_hash present (66 bytes) or
\* order_id missing, the size the one recorded or 0.1 token less
FillEvents(recorded) ==
    [OrderID : {0, 66}, Size : {recorded, recorded - 100}, TxHash : {66}]

\* what the collaborators answer during a tick of the process
ProcEnvs == { e \in TickEnvs : e.res.trades # <<tUp5, tDown7>> }

\* no order is awaiting its fill event
NoOrder ==
    [conditionID |-> "", side |-> "", Size |-> 0, recorded |-> 0,
     pending |-> FALSE, handled |-> FALSE, legBefore |-> 0]

Running == ex.status = "running"

\* the market the loop is at
Current == call.markets[call.i]

\* `for _, m := range markets`: the next market, or the sleep after the last
AfterMarket ==
    IF call.i < Len(call.markets)
    THEN /\ call' = [call EXCEPT !.i = call.i + 1]
         /\ pc' = [pc EXCEPT !.main = "fetch"]
    ELSE /\ call' = call
         /\ pc' = [pc EXCEPT !.main = "sleep"]

\* a runtime panic in any goroutine ends the process
Panic == ex' = [ex EXCEPT !.status = "panicked"]

\* the prices of the market and FSM.Step; a REST price error skips the market
FetchAndStep ==
    /\ Running
    /\ pc.main = "fetch"
    /\ \/ /\ AfterMarket
          /\ UNCHANGED <<fsm, step>>
       \/ \E q \in TickQuotes :
             LET prices == PricesOf(q)
                 r == StepResult(fsm, Current, prices, 60000,
                                 GetMergeablePairs(state, Current), now)
             IN  /\ fsm' = r.fsm
                 /\ step' = [conditionID |-> Current, Kind |-> r.action.Kind,
                             prices |-> prices, minutesToClose |-> 60000,
                             botState |-> r.botState, action |-> r.action]
                 /\ pc' = [pc EXCEPT !.main =
                              CASE r.action.Kind \in {"buy_arb", "buy_momentum"} -> "BuyMarket"
                                [] r.action.Kind = "merge" -> "MergePairs"
                                [] OTHER -> "Summary"]
                 /\ call' = call
    /\ UNCHANGED <<ledgerVars, classVars, mu, state0, tmp, ex>>

\* executeAction returns from the executor calls it made: the ledger holds
\* what they recorded, and the write of the file is under way if one of them
\* saved. A momentum action makes two BuyMarket calls; they are one step here.
CompleteCall ==
    /\ Running
    /\ pc.main \in {"BuyMarket", "MergePairs"}
    /\ \E env \in ProcEnvs :
          LET x == ExecuteAction(ex.dryRun, ex.merger, Current, step.action,
                                 step.prices, env)
              accepted == /\ ~ex.dryRun
                          /\ step.Kind = "buy_momentum"
                          /\ ~env.resp1.err
              side == step.action.MainSide
          IN  /\ state' = x.state
              /\ lastReconcile' = x.lastReconcile
              /\ tmp' = IF accepted
                        THEN [conditionID |-> Current, side |-> side, Size |-> 0,
                              recorded |-> LegOf(x.state, Current, side)
                                              - LegOf(state, Current, side),
                              pending |-> TRUE, handled |-> FALSE,
                              legBefore |-> LegOf(state, Current, side)]
                        ELSE NoOrder
              /\ pc' = [pc EXCEPT !.main = IF x.saved THEN "save" ELSE "Summary"]
    /\ UNCHANGED <<file, now, diskFaulty, op, classVars, mu, state0, call, fsmVars, ex>>

\* inv.save() returns; RecordBuy and RecordMerge then log conditionID[:8]
CompleteSave ==
    /\ Running
    /\ pc.main = "save"
    /\ file' = state
    /\ IF SliceOK(IDLen(Current), 8)
       THEN /\ pc' = [pc EXCEPT !.main = "Summary"]
            /\ ex' = ex
       ELSE /\ Panic
            /\ pc' = pc
    /\ UNCHANGED <<state, lastReconcile, now, diskFaulty, op, classVars, mu, state0, call,
                   tmp, fsmVars>>

\* log.Printf("[inventory] %s", inv.Summary(m.ConditionID)): conditionID[:8]
Summary ==
    /\ Running
    /\ pc.main = "Summary"
    /\ IF SliceOK(IDLen(Current), 8)
       THEN /\ AfterMarket
            /\ ex' = ex
       ELSE /\ Panic
            /\ UNCHANGED <<pc, call>>
    /\ UNCHANGED <<ledgerVars, classVars, mu, state0, tmp, fsmVars>>

\* time.Sleep(pollInterval), then the next tick from the first market
Sleep ==
    /\ Running
    /\ pc.main = "sleep"
    /\ pc' = [pc EXCEPT !.main = "fetch"]
    /\ call' = [call EXCEPT !.i = 1]
    /\ UNCHANGED <<ledgerVars, classVars, mu, state0, tmp, fsmVars, ex>>

\* the user feed (started in live mode only) delivers the fill of the pending
\* order: UserClient.handleFill calls Executor.HandleFill, which logs
\* fill.OrderID[:16] and fill.TxHash[:16] and returns
HandleFill ==
    /\ Running
    /\ ~ex.dryRun
    /\ tmp.pending
    /\ \E fill \in FillEvents(tmp.recorded) :
          IF SliceOK(fill.OrderID, 16) /\ SliceOK(fill.TxHash, 16)
          THEN /\ tmp' = [tmp EXCEPT !.pending = FALSE, !.handled = TRUE,
                                     !.Size = fill.Size]
               /\ ex' = ex
          ELSE /\ tmp' = tmp
               /\ Panic
    /\ UNCHANGED <<ledgerVars, classVars, pc, call, mu, state0, fsmVars>>

\* s := <-sigCh; os.Exit(0)
Signal ==
    /\ Running
    /\ pc.signal = "wait"
    /\ pc' = [pc EXCEPT !.signal = "done"]
    /\ ex' = [ex EXCEPT !.status = "exited"]
    /\ UNCHANGED <<ledgerVars, classVars, call, tmp, mu, state0, fsmVars>>

InitProc ==
    /\ state \in TickLedgers
    /\ file = state
    /\ lastReconcile = ZeroTime
    /\ now = 0
    /\ diskFaulty = FALSE
    /\ op = [name |-> "New"]
    /\ fsm = NewFSM
    /\ step = [Kind |-> "none"]
    /\ \E d \in BOOLEAN :
          ex = [status |-> "running", last |-> [name |-> "New"], dryRun |-> d,
                merger |-> [ready |-> TRUE]]
    /\ IdleClassifier
    /\ pc = [main |-> "fetch", signal |-> "wait"]
    /\ \E ms \in ProcLists : call = [i |-> 1, markets |-> ms]
    /\ tmp = NoOrder
    /\ mu = 0
    /\ state0 = EmptyMap

NextProc ==
    \/ FetchAndStep
    \/ CompleteCall
    \/ CompleteSave
    \/ Summary
    \/ Sleep
    \/ HandleFill
    \/ Signal

SpecProc == InitProc /\ [][NextProc]_vars

-----------------------------------------------------------------------------
(* Properties of the process *)

\* an order placement (live BuyMarket) or a write of the ledger file is under way
InFlight ==
    \/ pc.main = "save"
    \/ ~ex.dryRun /\ pc.main = "BuyMarket"

\* C25: the process terminates on a signal only between operations: never
\* while an order placement or a ledger write is in flight
C25_ExitOnlyBetweenOperations ==
    ex.status = "exited" => ~InFlight

\* C26: once the fill event of an order has been handled, the ledger holds,
\* on the leg the order bought, the balance before the order plus the fill
C26_FillReflectedInLedger ==
    tmp.handled =>
        LegOf(state, tmp.conditionID, tmp.side) = tmp.legBefore + tmp.Size

\* C29: no failed call or malformed identifier ends the process: it leaves the
\* loop only on a signal
C29_NoFailureAbortsProcess ==
    ex.status # "panicked"

-----------------------------------------------------------------------------
(* The buys of the decision engine *)

\* C31: a Step that emits BUY_MOMENTUM names the regime's leg as main leg and
\* the other leg as hedge, sizes the main order at min(MomentumMainUSDC,
\* MomentumMaxUSDC - spend before the call) and the hedge at MomentumHedgeUSDC,
\* and leaves the market's momentum spend at the previous spend plus both
\* sizes and its lastMomentumTS at the time of the call.
C31_MomentumBuySizes ==
    [][(StepTaken /\ step'.Kind = "buy_momentum") =>
          LET c     == step'.conditionID
              spent == Lookup(fsm.momentumSpent, c)
              a     == step'.action
          IN  /\ step'.prices.State \in MomentumStates
              /\ a.MainSide = (IF step'.prices.State = "MOMENTUM_UP" THEN "UP" ELSE "DOWN")
              /\ a.HedgeSide = (IF step'.prices.State = "MOMENTUM_UP" THEN "DOWN" ELSE "UP")
              /\ a.MainUSDC = Min(10000, 30000 - spent)
              /\ a.HedgeUSDC = 1000
              /\ fsm'.momentumSpent[c] = spent + a.MainUSDC + a.HedgeUSDC
              /\ fsm'.lastMomentumTS[c] = now]_vars

\* the third momentum buy of a market: 22 spent before it, so a main order of
\* 8 rather than 10, emitted for the DOWN regime
C31_Witness ==
    /\ step.Kind = "buy_momentum"
    /\ step.prices.State = "MOMENTUM_DOWN"
    /\ step.action.MainSide = "DOWN"
    /\ step.action.MainUSDC = 8000
    /\ fsm.momentumSpent[step.conditionID] = 31000
    /\ fsm.lastMomentumTS[step.conditionID] = now

\* the step is a Step call in the ARB regime for a market whose arbitrage
\* spend is below the cap
ArbStepBelowCap ==
    /\ StepTaken
    /\ step'.prices.State = "ARB"
    /\ Lookup(fsm.arbSpent, step'.conditionID) < 20000

\* the market's last arbitrage action was less than 5 seconds ago
ArbInCooldown ==
    /\ step'.conditionID \in DOMAIN fsm.lastArbTS
    /\ now - fsm.lastArbTS[step'.conditionID] < 5

\* the Step emitted BUY_BOTH with both sizes ARBOrderUSDC, stamped the call
\* time and added twice the order size to the arbitrage spend
ArbBought ==
    LET c == step'.conditionID IN
    /\ step'.Kind = "buy_arb_both"
    /\ step'.action.MainUSDC = 5000
    /\ step'.action.HedgeUSDC = 5000
    /\ fsm'.lastArbTS = MapSet(fsm.lastArbTS, c, now)
    /\ fsm'.arbSpent = MapSet(fsm.arbSpent, c, Lookup(fsm.arbSpent, c) + 2 * 5000)
    /\ fsm'.lastMomentumTS = fsm.lastMomentumTS
    /\ fsm'.momentumSpent = fsm.momentumSpent

\* C32 as stated: in the ARB regime with arbitrage spend below the cap, Step
\* returns SKIP and changes nothing when less than 5 seconds have passed since
\* the market's last arbitrage action, and otherwise emits BUY_BOTH.
C32_ArbCooldownThenBuyBoth ==
    [][ArbStepBelowCap =>
          IF ArbInCooldown THEN step'.Kind = "skip" /\ fsm' = fsm
          ELSE ArbBought]_vars

\* C32 amended: the same for Step calls made with at least one minute to
\* close; with less than a minute to close the resolution check answers first
\* with MERGE or SKIP and changes nothing.
C32_ArbCooldownThenBuyBothBeforeClose ==
    [][ArbStepBelowCap =>
          /\ step'.minutesToClose >= 1000 =>
                IF ArbInCooldown THEN step'.Kind = "skip" /\ fsm' = fsm
                ELSE ArbBought
          /\ step'.minutesToClose < 1000 =>
                step'.Kind \in {"merge", "skip"} /\ fsm' = fsm]_vars

\* exactly 5 seconds after the first BUY_BOTH of a market the second was
\* emitted: 20 spent
C32_Witness ==
    /\ step.Kind = "buy_arb_both"
    /\ step.minutesToClose >= 1000
    /\ now = 5
    /\ fsm.lastArbTS[step.conditionID] = 5
    /\ fsm.arbSpent[step.conditionID] = 20000

\* within the cooldown an ARB quote below the cap was answered SKIP
C32_WitnessCooldown ==
    /\ step.Kind = "skip"
    /\ step.prices.State = "ARB"
    /\ step.minutesToClose >= 1000
    /\ step.conditionID \in DOMAIN fsm.lastArbTS
    /\ now - fsm.lastArbTS[step.conditionID] < 5
    /\ fsm.arbSpent[step.conditionID] < 20000

\* the regimes ClassifyPrices names, and the bot states of the four named
\* branches of Step (resolution, momentum, grey, arbitrage)
Regimes == {"RESOLVED", "MOMENTUM_UP", "MOMENTUM_DOWN", "ARB", "GREY"}
NamedBranches == {"RESOLUTION", "MOMENTUM_UP", "MOMENTUM_DOWN", "GREY", "ARB"}

\* C33: every Prices value Step receives carries one of the five regimes of
\* ClassifyPrices, so Step never returns through its unknown-regime fallback
\* (bot state IDLE): it returns through a named branch with one action.
\* ClassifyPrices names one of the five regimes for every pair of prices of
\* the grid (a fact of the function, evaluated once, in the initial state).
C33_FallbackUnreachable ==
    /\ step.Kind # "none" =>
          /\ step.prices.State \in Regimes
          /\ step.botState \in NamedBranches
          /\ step.botState # "IDLE"
          /\ step.Kind \in {"wait", "skip", "merge", "buy_momentum", "buy_arb_both"}
          /\ step.action.Kind = step.Kind
    /\ step.Kind = "none" =>
          \A up \in PriceGrid, down \in PriceGrid :
              ClassifyPrices(up, down, ARBThreshold, MomentumTrigger) \in Regimes

\* a quote that passes none of the classifier's tests (0.50 / 0.50) was
\* classified GREY and answered by the grey branch
C33_Witness ==
    /\ step.Kind = "wait"
    /\ step.prices.up = 500
    /\ step.prices.down = 500
    /\ step.prices.State = "GREY"
    /\ step.botState = "GREY"

\* market m has the same entry (or none) in map a as in map b
SameEntry(a, b, m) ==
    /\ (m \in DOMAIN a) = (m \in DOMAIN b)
    /\ Lookup(a, m) = Lookup(b, m)

\* the Step left every market other than c as it was in all four maps
OtherMarketsKept(c) ==
    \A m \in Markets \ {c} :
        /\ SameEntry(fsm'.lastMomentumTS, fsm.lastMomentumTS, m)
        /\ SameEntry(fsm'.momentumSpent, fsm.momentumSpent, m)
        /\ SameEntry(fsm'.lastArbTS, fsm.lastArbTS, m)
        /\ SameEntry(fsm'.arbSpent, fsm.arbSpent, m)

\* C36: a Step returning MERGE, SKIP or WAIT leaves the four maps of the
\* engine unchanged; a BUY_MOMENTUM leaves lastArbTS and arbSpent unchanged and
\* a BUY_BOTH leaves lastMomentumTS and momentumSpent unchanged; no Step
\* changes the entries of another market, the ledger or its file.
C36_StepFrame ==
    [][StepTaken =>
          /\ step'.Kind \in {"merge", "skip", "wait"} => fsm' = fsm
          /\ step'.Kind = "buy_momentum" =>
                /\ fsm'.lastArbTS = fsm.lastArbTS
                /\ fsm'.arbSpent = fsm.arbSpent
          /\ step'.Kind = "buy_arb_both" =>
                /\ fsm'.lastMomentumTS = fsm.lastMomentumTS
                /\ fsm'.momentumSpent = fsm.momentumSpent
          /\ OtherMarketsKept(step'.conditionID)
          /\ state' = state
          /\ file' = file
          /\ lastReconcile' = lastReconcile]_vars

\* market m1 bought momentum after market m2 had: both hold their own spend,
\* and m1 also holds arbitrage state from an earlier BUY_BOTH
C36_Witness ==
    /\ step.Kind = "buy_momentum"
    /\ step.conditionID = "m1"
    /\ "m2" \in DOMAIN fsm.momentumSpent
    /\ fsm.momentumSpent["m2"] = 11000
    /\ "m1" \in DOMAIN fsm.arbSpent
    /\ fsm.momentumSpent["m1"] = 11000

-----------------------------------------------------------------------------
(* MergePairs around its 0.01 threshold *)

\* ledgers whose market m1 holds 0.009, 0.01 or 1 redeemable pairs
DustLedgers ==
    { [m \in {"m1"} |-> [NewEntry("u1", "d1") EXCEPT !.UpBalance = up, !.DownBalance = 1000,
                                                    !.TotalInvested = 500]] :
        up \in {9, 10, 1000} }

InitDust ==
    /\ state \in DustLedgers
    /\ file = state
    /\ lastReconcile = ZeroTime
    /\ now = 0
    /\ diskFaulty = FALSE
    /\ op = [name |-> "New"]
    /\ \E d \in BOOLEAN, rdy \in BOOLEAN :
          ex = [last |-> [name |-> "New"], dryRun |-> d, merger |-> [ready |-> rdy]]
    /\ IdleClassifier
    /\ IdleGoroutines
    /\ IdleFSM

NextDust ==
    \/ DoMergePairs /\ UNCHANGED <<classVars, concVars, fsmVars>>
    \/ Advance /\ UNCHANGED <<classVars, concVars, fsmVars, execVars>>

SpecDust == InitDust /\ [][NextDust]_vars

\* C34: a MergePairs call that reads less than 0.01 redeemable pairs from the
\* ledger left by its pre-merge reconcile returns 0, sends no transaction and
\* does not consult the chain, and leaves the ledger as the reconcile left it
\* (no redemption recorded); with 0.01 pairs or more in simulate mode it
\* records them.
C34_BelowThresholdNothingMerged ==
    ex.last.name = "MergePairs" =>
        /\ ex.last.pairs = GetMergeablePairs(ex.last.atRead, ex.last.conditionID)
        /\ ex.last.pairs < 10 =>
              /\ ex.last.returned = 0
              /\ ~ex.last.sent
              /\ ex.last.onChain = -1
              /\ state = ex.last.atRead
              /\ RedeemedByLastCall = 0
        /\ (ex.last.pairs >= 10 /\ ex.dryRun) => RedeemedByLastCall = ex.last.pairs

\* a MergePairs call read 0.009 redeemable pairs and merged nothing
C34_Witness ==
    /\ ex.last.name = "MergePairs"
    /\ ex.last.conditionID = "m1"
    /\ ex.last.pairs = 9
    /\ ex.last.returned = 0
    /\ GetMergeablePairs(state, "m1") = 9

\* a simulated MergePairs call read exactly 0.01 pairs and recorded them
C34_WitnessAtThreshold ==
    /\ ex.last.name = "MergePairs"
    /\ ex.dryRun
    /\ ex.last.pairs = 10
    /\ ex.last.returned = 10

-----------------------------------------------------------------------------
(* The price hints of a momentum tick *)

\* the price of leg `side` in the prices of the tick
LegPrice(prices, side) == IF side = "DOWN" THEN prices.down ELSE prices.up

\* the tokens the last tick added to leg `side` of its market
TickBought(side) ==
    LegOf(state, step.conditionID, side) - LegOf(ex.last.before, step.conditionID, side)

\* C39: a simulated BUY_MOMENTUM tick records, for the main leg and for the
\* hedge leg, the order's collateral divided by that leg's own price: each
\* order was placed with the price of the leg it buys as its hint.
C39_HintIsPriceOfLegBought ==
    (ex.last.name = "executeAction" /\ step.Kind = "buy_momentum" /\ ex.dryRun) =>
        /\ TickBought(step.action.MainSide)
              = (step.action.MainUSDC * 1000)
                    \div max64(LegPrice(step.prices, step.action.MainSide), 10)
        /\ TickBought(step.action.HedgeSide)
              = (step.action.HedgeUSDC * 1000)
                    \div max64(LegPrice(step.prices, step.action.HedgeSide), 10)

-----------------------------------------------------------------------------
(* The REST price fetch: Pricer.GetPrices, then Step *)

\* what fetchPrice returns for a leg: an error, or the price quoted
FetchOutcomes ==
    {[err |-> TRUE, price |-> 0]}
        \cup {[err |-> FALSE, price |-> p] : p \in {140, 450, 550, 860}}

\* the price GetPrices substitutes for a leg whose fetch failed (0.5)
NeutralPrice == 500

\* Pricer.GetPrices: a failed leg is priced 0.5, the pair is classified, and
\* the error returned is always nil
RestPrices(upFetch, downFetch) ==
    LET upPrice   == IF upFetch.err THEN NeutralPrice ELSE upFetch.price
        downPrice == IF downFetch.err THEN NeutralPrice ELSE downFetch.price
    IN  PricesOf(<<upPrice, downPrice>>)

\* the loop body on the REST path: restPricer.GetPrices, then fsmEngine.Step
RestTick(conditionID, upFetch, downFetch, minutesToClose) ==
    LET prices == RestPrices(upFetch, downFetch)
        r == StepResult(fsm, conditionID, prices, minutesToClose,
                        GetMergeablePairs(state, conditionID), now)
    IN  /\ fsm' = r.fsm
        /\ step' = [conditionID |-> conditionID, Kind |-> r.action.Kind, prices |-> prices,
                    minutesToClose |-> minutesToClose,
                    botState |-> r.botState, action |-> r.action]
        /\ cp' = [phase |-> "rest", upErr |-> upFetch.err, downErr |-> downFetch.err]
        /\ UNCHANGED <<ledgerVars, concVars, execVars>>

DoRestTick ==
    \E upFetch \in FetchOutcomes, downFetch \in FetchOutcomes :
        RestTick("m1", upFetch, downFetch, 30000)

NextRest ==
    \/ DoRestTick
    \/ Tick

SpecRest == InitFSM /\ [][NextRest]_vars

\* C38: a tick in which the fetch of either leg failed, the failed leg being
\* priced 0.5, ends with no BUY action for the market
C38_NoBuyOnFailedFetch ==
    (cp.phase = "rest" /\ (cp.upErr \/ cp.downErr)) =>
        step.Kind \notin {"buy_arb", "buy_arb_both", "buy_momentum"}

-----------------------------------------------------------------------------
(* Redemption under repeated ticks of a resolved market *)

\* the pairs the Safe holds on chain when the bot starts
OnChainAtStart == {0, 3000, 5000}

\* the answers of the collaborators during a tick: every order is accepted,
\* the Safe holds ex.onChain pairs and every transaction sent goes through
RedeemEnv(res) ==
    [resp1 |-> [err |-> FALSE, takingAmount |-> 0, makingAmount |-> 0],
     resp2 |-> [err |-> FALSE, takingAmount |-> 0, makingAmount |-> 0],
     res   |-> res,
     chain |-> [onChainPairs |-> ex.onChain, txOK |-> TRUE]]

\* what GetTrades answers to the pre-merge reconcile of a tick
RedeemFetches ==
    { [err |-> TRUE, trades |-> <<>>],
      [err |-> FALSE, trades |-> <<tUp5, tDown5>>],
      [err |-> FALSE, trades |-> <<tUp5, tDown7>>] }

\* the ledger at startup: market m1 holds 5 or 3 UP and 3, 5 or 7 DOWN
RedeemLedgers ==
    { [m \in {"m1"} |->
          [NewEntry("u1", "d1") EXCEPT !.UpBalance = up, !.DownBalance = down,
                                       !.TotalInvested = 5000]] :
        up \in {3000, 5000}, down \in {3000, 5000, 7000} }

\* a tick of market m1 quoted 0.995 / 0.01 in live mode; a transaction that
\* goes through takes the merged pairs from the Safe's balance
RedeemTick(res) ==
    \E prices \in {PricesOf(<<995, 10>>)} :
    \E r \in {StepResult(fsm, "m1", prices, 60000, GetMergeablePairs(state, "m1"), now)} :
    \E x \in {ExecuteAction(ex.dryRun, ex.merger, "m1", r.action, prices, RedeemEnv(res))} :
        /\ fsm' = r.fsm
        /\ step' = [conditionID |-> "m1", Kind |-> r.action.Kind, prices |-> prices,
                    minutesToClose |-> 60000,
                    botState |-> r.botState, action |-> r.action]
        /\ state' = x.state
        /\ lastReconcile' = x.lastReconcile
        /\ file' = IF x.saved THEN x.state ELSE file
        /\ ex' = [ex EXCEPT !.onChain = @ - x.returned,
                            !.last = [name |-> "executeAction", returned |-> x.returned]]
        /\ UNCHANGED <<now, diskFaulty, op, classVars, concVars>>

DoRedeemTick == \E res \in RedeemFetches : RedeemTick(res)

InitRedeem ==
    /\ state \in RedeemLedgers
    /\ file = state
    /\ lastReconcile = ZeroTime
    /\ now = 0
    /\ diskFaulty = FALSE
    /\ op = [name |-> "New"]
    /\ fsm = NewFSM
    /\ step = [Kind |-> "none"]
    /\ \E n \in OnChainAtStart :
          ex = [last |-> [name |-> "New"], dryRun |-> FALSE, onChain |-> n,
                merger |-> [ready |-> TRUE]]
    /\ IdleClassifier
    /\ IdleGoroutines

NextRedeem ==
    \/ DoRedeemTick
    \/ Advance /\ UNCHANGED <<classVars, concVars, fsmVars, execVars>>

\* the main loop never stops ticking
SpecRedeem == InitRedeem /\ [][NextRedeem]_vars /\ WF_vars(DoRedeemTick)

\* C40: with the market resolved at every tick, the merger ready and every
\* transaction going through, the ledger's redeemable pairs of the market
\* eventually are at most 0.01 (and Step then stops answering MERGE)
C40_RedemptionProgress ==
    <>(GetMergeablePairs(state, "m1") <= 10)


-----------------------------------------------------------------------------
(* The two mutexes: FSM.mu of the engine and Inventory.mu of the ledger,
   with goroutines calling Step, RecordBuy, RecordMerge, GetMergeablePairs
   and ReconcileFromAPI concurrently. A critical section is one step; the
   deferred Unlock is part of the step that returns.
   Here mu = [fsm |-> holder, inv |-> holder], 0 for a free mutex. *)

\* the calls a goroutine may make on the shared engine and ledger
LockCalls ==
    { [name |-> "RecordBuy", conditionID |-> "m1", side |-> "UP", tokens |-> 1000, usdc |-> 500],
      [name |-> "RecordMerge", conditionID |-> "m1", pairs |-> 500],
      [name |-> "GetMergeablePairs", conditionID |-> "m1"],
      [name |-> "Step", conditionID |-> "m1", quote |-> <<995, 10>>],
      [name |-> "Step", conditionID |-> "m1", quote |-> <<500, 450>>],
      [name |-> "ReconcileFromAPI"] }

\* client.GetTrades("") during a concurrent reconcile
LockFetches ==
    { [err |-> TRUE, trades |-> <<>>],
      [err |-> FALSE, trades |-> <<>>],
      [err |-> FALSE, trades |-> <<tDown1>>],
      [err |-> FALSE, trades |-> <<tUp1, tDown1>>],
      [err |-> FALSE, trades |-> <<tYes2>>] }

\* the first statement of each call
EntryPc(c) ==
    CASE c.name = "Step"             -> "f_lock"
      [] c.name = "ReconcileFromAPI" -> "r_lock"
      [] OTHER                       -> "lock"

\* the locals of a call: the pairs Step read, the rebuilt newState, what
\* RecordMerge merged, whether the reconcile replaced the ledger, and the
\* goroutines whose RecordBuy or RecordMerge returned between this
\* reconcile's fetch and its replacement of the ledger
NoLocals ==
    [pairs |-> 0, newState |-> EmptyMap, merged |-> 0, replaced |-> FALSE, during |-> {}]

\* m.Unlock() that leaves the mutex held
ReleasedNot(m) == mu

\* m.Unlock()
Released(m) == [mu EXCEPT ![m] = 0]

\* m.Lock() returns only when no goroutine holds m
Free(m) == mu[m] = 0

\* goroutines between the fetch of their reconcile and its second Lock
InWindow == { r \in Procs : pc[r] = "r_lock2" }

\* a ledger mutation of goroutine self returned: noted by every reconcile in its window
Noted(self) ==
    [p \in Procs |-> IF p \in InWindow THEN [tmp[p] EXCEPT !.during = @ \cup {self}]
                     ELSE tmp[p]]

frameLock == <<now, diskFaulty, op, call, state0, classVars, step, execVars>>

\* inv.mu.Lock() of RecordBuy, RecordMerge, GetMergeablePairs
LockInv(self) ==
    /\ pc[self] = "lock"
    /\ Free("inv")
    /\ mu' = [mu EXCEPT !.inv = self]
    /\ pc' = [pc EXCEPT ![self] = "crit"]
    /\ UNCHANGED <<state, file, lastReconcile, tmp, fsm, frameLock>>

\* the body of RecordBuy, RecordMerge or GetMergeablePairs, and the deferred Unlock
Crit(self) ==
    /\ pc[self] = "crit"
    /\ LET c == call[self] IN
       CASE c.name = "RecordBuy" ->
              /\ state' = RecordBuyOn(state, c.conditionID, UpTokenOf(c.conditionID),
                                      DownTokenOf(c.conditionID), c.side, c.tokens, c.usdc)
              /\ file' = state'
              /\ tmp' = Noted(self)
         [] c.name = "RecordMerge" ->
              /\ state' = RecordMergeOn(state, c.conditionID, c.pairs)
              /\ file' = IF c.conditionID \in DOMAIN state THEN state' ELSE file
              /\ tmp' = [Noted(self) EXCEPT ![self].merged =
                            IF c.conditionID \in DOMAIN state
                            THEN Mergeable(state[c.conditionID], c.pairs) ELSE 0]
         [] OTHER ->
              /\ tmp' = [tmp EXCEPT ![self].pairs = GetMergeablePairs(state, c.conditionID)]
              /\ UNCHANGED <<state, file>>
    /\ mu' = Released("inv")
    /\ pc' = [pc EXCEPT ![self] = "done"]
    /\ UNCHANGED <<lastReconcile, fsm, frameLock>>

\* Step: f.mu.Lock(), then the resolution test
StepLock(self) ==
    /\ pc[self] = "f_lock"
    /\ Free("fsm")
    /\ mu' = [mu EXCEPT !.fsm = self]
    /\ pc' = [pc EXCEPT ![self] =
                 IF Resolving(PricesOf(call[self].quote), 30000) THEN "f_inv_lock" ELSE "f_ret"]
    /\ UNCHANGED <<state, file, lastReconcile, tmp, fsm, frameLock>>

\* Step: inv.GetMergeablePairs, its Lock
StepLockInv(self) ==
    /\ pc[self] = "f_inv_lock"
    /\ Free("inv")
    /\ mu' = [mu EXCEPT !.inv = self]
    /\ pc' = [pc EXCEPT ![self] = "f_inv_crit"]
    /\ UNCHANGED <<state, file, lastReconcile, tmp, fsm, frameLock>>

\* Step: inv.GetMergeablePairs, its read and deferred Unlock
StepReadInv(self) ==
    /\ pc[self] = "f_inv_crit"
    /\ tmp' = [tmp EXCEPT ![self].pairs = GetMergeablePairs(state, call[self].conditionID)]
    /\ mu' = Released("inv")
    /\ pc' = [pc EXCEPT ![self] = "f_ret"]
    /\ UNCHANGED <<state, file, lastReconcile, fsm, frameLock>>

\* Step: the decision, the engine's bookkeeping and the deferred f.mu.Unlock()
StepReturn(self) ==
    /\ pc[self] = "f_ret"
    /\ fsm' = StepResult(fsm, call[self].conditionID, PricesOf(call[self].quote), 30000,
                         tmp[self].pairs, now).fsm
    /\ mu' = Released("fsm")
    /\ pc' = [pc EXCEPT ![self] = "done"]
    /\ UNCHANGED <<state, file, lastReconcile, tmp, frameLock>>

\* ReconcileFromAPI: the first Lock
ReconcileLock(self) ==
    /\ pc[self] = "r_lock"
    /\ Free("inv")
    /\ mu' = [mu EXCEPT !.inv = self]
    /\ pc' = [pc EXCEPT ![self] = "r_check"]
    /\ UNCHANGED <<state, file, lastReconcile, tmp, fsm, frameLock>>

\* ReconcileFromAPI: the rate-limit return, or the stamp; Unlock on both paths
ReconcileCheck(self) ==
    /\ pc[self] = "r_check"
    /\ IF RateLimited(FALSE)
       THEN /\ pc' = [pc EXCEPT ![self] = "done"]
            /\ UNCHANGED lastReconcile
       ELSE /\ pc' = [pc EXCEPT ![self] = "r_fetch"]
            /\ lastReconcile' = now
    /\ mu' = Released("inv")
    /\ UNCHANGED <<state, file, tmp, fsm, frameLock>>

\* ReconcileFromAPI: the fetch, its two early returns, the rebuild of newState
ReconcileFetch(self, res) ==
    /\ pc[self] = "r_fetch"
    /\ IF res.err \/ Len(res.trades) = 0
       THEN /\ pc' = [pc EXCEPT ![self] = "done"]
            /\ UNCHANGED tmp
       ELSE /\ pc' = [pc EXCEPT ![self] = "r_lock2"]
            /\ tmp' = [tmp EXCEPT ![self].newState = Rebuild(EmptyMap, res.trades)]
    /\ UNCHANGED <<state, file, lastReconcile, mu, fsm, frameLock>>

\* ReconcileFromAPI: the second Lock
ReconcileLock2(self) ==
    /\ pc[self] = "r_lock2"
    /\ Free("inv")
    /\ mu' = [mu EXCEPT !.inv = self]
    /\ pc' = [pc EXCEPT ![self] = "r_replace"]
    /\ UNCHANGED <<state, file, lastReconcile, tmp, fsm, frameLock>>

\* ReconcileFromAPI: subtract the merged amounts, replace inv.state, save, Unlock
ReconcileReplace(self) ==
    /\ pc[self] = "r_replace"
    /\ state' = SubtractMerged(tmp[self].newState, state)
    /\ file' = state'
    /\ tmp' = [tmp EXCEPT ![self].replaced = TRUE]
    /\ mu' = Released("inv")
    /\ pc' = [pc EXCEPT ![self] = "done"]
    /\ UNCHANGED <<lastReconcile, fsm, frameLock>>

\* one statement of goroutine self
Run(self) ==
    \/ LockInv(self)
    \/ Crit(self)
    \/ StepLock(self)
    \/ StepLockInv(self)
    \/ StepReadInv(self)
    \/ StepReturn(self)
    \/ ReconcileLock(self)
    \/ ReconcileCheck(self)
    \/ \E res \in LockFetches : ReconcileFetch(self, res)
    \/ ReconcileLock2(self)
    \/ ReconcileReplace(self)

InitLock ==
    /\ state0 \in LoadedLedgers
    /\ state = state0
    /\ file = state0
    /\ call \in [Procs -> LockCalls]
    /\ pc = [p \in Procs |-> EntryPc(call[p])]
    /\ tmp = [p \in Procs |-> NoLocals]
    /\ mu = [fsm |-> 0, inv |-> 0]
    /\ lastReconcile = ZeroTime
    /\ now = 0
    /\ diskFaulty = FALSE
    /\ op = [name |-> "New"]
    /\ IdleClassifier
    /\ IdleFSM
    /\ IdleExecutor

NextLock == \E self \in Procs : Run(self)

\* the Go scheduler runs every goroutine that can run
SpecLock == InitLock /\ [][NextLock]_vars /\ \A self \in Procs : WF_vars(Run(self))

\* C37: whatever calls the goroutines make, all of them return
C37_AllCallsComplete ==
    <>(\A p \in Procs : pc[p] = "done")

\* a Step holds the engine lock and waits for the ledger lock, which a
\* reconcile about to replace the ledger holds
C37_Witness ==
    \E p, q \in Procs :
        /\ pc[p] = "f_inv_lock" /\ mu.fsm = p
        /\ pc[q] = "r_replace" /\ mu.inv = q

\* a RecordBuy noted by reconcile r is counted in the ledger
BuyReflected(q) ==
    LET c == call[q] IN
    /\ c.conditionID \in DOMAIN state
    /\ GetBalance(state, c.conditionID, c.side) + state[c.conditionID].TotalMerged >= c.tokens

\* a RecordMerge noted by reconcile r is counted in the ledger
MergeReflected(q) ==
    \/ tmp[q].merged = 0
    \/ /\ call[q].conditionID \in DOMAIN state
       /\ state[call[q].conditionID].TotalMerged >= tmp[q].merged

\* C35: once a reconcile has replaced the ledger, every RecordBuy and
\* RecordMerge that returned between its fetch and the replacement is still
\* counted in the ledger
C35_WindowMutationsKept ==
    \A r \in Procs :
        tmp[r].replaced =>
            \A q \in tmp[r].during :
                IF call[q].name = "RecordBuy" THEN BuyReflected(q) ELSE MergeReflected(q)
=============================================================================
